---- MODULE Spec2Model ----
(***************************************************************************)
(* Login single-page application: the auth wrapper (signInUser and the     *)
(* verify/update wrappers), the per-view components with their submit and  *)
(* click handlers, the two in-memory globals (pending email, pending       *)
(* temporary password) and the hash router with its asynchronous child     *)
(* view loading.                                                           *)
(*                                                                         *)
(* Three specifications share the variables:                               *)
(*   SpecSignIn  signInUser as a function of what the provider answers     *)
(*   Spec        the page flow: views, globals, handlers split at their    *)
(*               awaits                                                    *)
(*   SpecRoute   handleRoute / initializeLayout / updateChildView with     *)
(*               every interleaving of their awaits and hashchange events  *)
(***************************************************************************)
EXTENDS Naturals, Sequences, FiniteSets, TLC

VARIABLES
    \* ---- SpecSignIn
    scn,            \* what the identity provider and the backend answer
    out,            \* what signInUser returned for scn, or NotCalled
    \* ---- Spec (page flow)
    view,           \* child component shown in #main-slot, or "left" after a redirect away
    wired,          \* listeners of the shown child: "loading" until its init has
                    \* attached them, "attached", "removed" once destroy ran
    hash,           \* location.hash: its path and its uri parameter (or NoUri)
    email,          \* utils/state.ts: let email
    password,       \* utils/state.ts: let password
    boxes,          \* values of the six .code-digit inputs of the current DOM
    banner,         \* #mfa-error-message / #error-message of the current DOM
    btn,            \* per handler: its button in the current DOM
    pending,        \* handler invocations awaiting their provider call
    timer,          \* the 1500 ms redirect timer of post-password-change is armed
    loginEmail,     \* the email of the most recent login submission, or Null
    last,           \* what the last step did (observation)
    navs,           \* number of hash changes made by the user so far
    \* ---- SpecRoute (router and component lifecycle)
    isMainViewportLoaded,   \* app.ts
    currentComponent,       \* main-viewport/component.ts
    cleanupCallbacks,       \* app.ts: the registered destroy functions
    slot,                   \* #main-slot: the component whose HTML it holds, and
                            \* the generation of its elements
    tasks,                  \* handleRoute invocations suspended at an await
    trackedHandlers,        \* per component module: its trackedHandlers array
    attached,               \* listeners attached to elements
    \* ---- SpecLogin (sign-in pages)
    spinnerInterval,        \* passkey buttons whose ensureSpinnerVisible interval runs
    hovering,               \* the pointer is over .passkey-signin-section
    webAuthn,               \* window.PublicKeyCredential is defined
    \* ---- SpecLoaders (utils/loaders.ts)
    loadedScripts,          \* const loadedScripts = new Set<string>()
    loadedStyles,           \* const loadedStyles = new Set<string>()
    head,                   \* elements appended to document.head, in order
    loads,                  \* calls of loadScriptOnce / loadStylesheetOnce so far
    \* ---- SpecUrl (buildServiceUrl)
    location,               \* window.location: protocol, host labels, port
    service,                \* argument of buildServiceUrl
    built,                  \* what buildServiceUrl returned, or NotBuilt
    \* ---- SpecPool (the user pool the SDK is configured with)
    poolView,               \* the sign-in view shown: "login" or "admin-login"
    poolReady,              \* the shown view's init has attached its handlers
    isConfigured,           \* query.ts: let isConfigured
    amplify,                \* the pool of the last Amplify.configure, or "none"
    adminPool,              \* config.admin_cognito_userPoolId is set
    poolTasks,              \* inits and configureAuth calls awaiting getConfig
    poolLast,               \* what the last step did (observation)
    poolNavs,               \* navigations between the two views so far
    \* ---- SpecBoot (hash changes during the first load)
    granted                 \* handleRoute invocations whose checkSession returned true

Undefined == "<undefined>"
Null      == "<null>"

-----------------------------------------------------------------------------
(***************************************************************************)
(* signInUser (utils/auth.ts)                                              *)
(***************************************************************************)

\* nextStep.signInStep values the wrapper distinguishes, the step of a
\* completed sign-in, and one step it does not know.
KnownSteps ==
    { "CONTINUE_SIGN_IN_WITH_TOTP_SETUP", "CONFIRM_SIGN_IN_WITH_TOTP_CODE",
      "RESET_PASSWORD", "CONFIRM_SIGN_IN_WITH_NEW_PASSWORD_REQUIRED" }

OtherSteps == { "CONFIRM_SIGN_UP" }

SetupUri == "otpauth://totp/OpenLogx"

\* The statuses signInUser names.
SignInStatuses ==
    { "MFASetup", "MFA", "ResetPasswordConfirm", "UpdatePassword",
      "PasskeyRequired", "Failed", "Success" }

\* Every answer of the provider and of the backend that signInUser reads.
Scenarios ==
    [ first      : {"ok", "alreadySignedIn", "error"},   \* first signIn call
      retry      : {"ok", "error"},                      \* signIn after signOut
      signOut    : {"ok", "throws"},                     \* every signOut call
      isSignedIn : BOOLEAN,
      step       : KnownSteps \cup OtherSteps \cup {"DONE"},
      totp       : {"details", "none"},                \* nextStep.totpSetupDetails
      passkeys   : {"none", "some", "throws"},         \* listWebAuthnCredentials
      mfaPref    : {"TOTP", "none", "throws"},         \* fetchMFAPreference
      session    : {"tokens", "noAccessToken", "throws"}, \* fetchAuthSession
      payload    : {"sub", "noId", "malformed"},       \* decoded access token
      api        : {"ok", "notOk", "throws"},          \* get-user-by-cognito-id
      authMethod : {"password-only", "mfa"},
      hasPasskeys : BOOLEAN,     \* the user has a passkey registered
      hasTotp     : BOOLEAN ]    \* the user has TOTP MFA enabled

\* The provider reports step DONE exactly when the user is signed in, and
\* the credentials and the MFA preference it lists, when it answers, are
\* those the user has.
ProviderOutputs ==
    { s \in Scenarios :
        /\ s.isSignedIn <=> (s.step = "DONE")
        /\ s.passkeys = "some" => s.hasPasskeys
        /\ s.passkeys = "none" => ~s.hasPasskeys
        /\ s.mfaPref = "TOTP" => s.hasTotp
        /\ s.mfaPref = "none" => ~s.hasTotp }

Ret(status, url, calls, signedOut, stored) ==
    [ threw |-> FALSE, status |-> status, mfaSetupUrl |-> url,
      signInCalls |-> calls, signedOut |-> signedOut, tokenStored |-> stored ]

\* The value of out before signInUser is called.
NotCalled == Ret("<not called>", Undefined, 0, FALSE, FALSE)

Threw(calls) ==
    [ threw |-> TRUE, status |-> Undefined, mfaSetupUrl |-> Undefined,
      signInCalls |-> calls, signedOut |-> FALSE, tokenStored |-> FALSE ]

\* lines 134-193: the user has neither TOTP nor a passkey.  A signOut that
\* throws here is caught and ignored (lines 168 and 184).
SignInNoSecondFactor(s, calls) ==
    IF s.session = "throws" THEN Ret("Failed", Undefined, calls, s.signOut = "ok", FALSE)
    ELSE IF s.session = "noAccessToken" THEN Ret("MFASetup", "", calls, FALSE, FALSE)
    ELSE IF s.payload = "malformed" THEN Ret("Failed", Undefined, calls, s.signOut = "ok", TRUE)
    ELSE IF s.payload = "noId" THEN Ret("MFASetup", "", calls, FALSE, TRUE)
    ELSE IF s.api = "throws" THEN Ret("Failed", Undefined, calls, s.signOut = "ok", TRUE)
    ELSE IF s.api = "notOk" THEN Ret("Failed", Undefined, calls, s.signOut = "ok", TRUE)
    ELSE IF s.authMethod = "password-only" THEN Ret("Success", Undefined, calls, FALSE, TRUE)
    ELSE Ret("MFASetup", "", calls, FALSE, TRUE)

\* lines 110-213: the provider reported isSignedIn.  Whatever throws inside
\* the outer try, the signOut of line 120 included, is caught at line 207 and
\* the function goes on to return Success.
SignInSignedIn(s, calls) ==
    IF s.passkeys = "throws" THEN Ret("Success", Undefined, calls, FALSE, FALSE)
    ELSE IF s.passkeys = "some"
    THEN IF s.signOut = "throws" THEN Ret("Success", Undefined, calls, FALSE, FALSE)
         ELSE Ret("PasskeyRequired", Undefined, calls, TRUE, FALSE)
    ELSE IF s.mfaPref = "throws" THEN Ret("Success", Undefined, calls, FALSE, FALSE)
    ELSE IF s.mfaPref = "none" THEN SignInNoSecondFactor(s, calls)
    ELSE IF s.session = "throws" THEN Ret("Success", Undefined, calls, FALSE, FALSE)
    ELSE Ret("Success", Undefined, calls, FALSE, s.session = "tokens")

\* Mutant of SignInBranch: the RESET_PASSWORD and new-password branches swapped.
SignInBranchSwapped(s, calls) ==
    IF ~s.isSignedIn /\ s.step = "CONTINUE_SIGN_IN_WITH_TOTP_SETUP"
    THEN Ret("MFASetup", IF s.totp = "details" THEN SetupUri ELSE Undefined,
             calls, FALSE, FALSE)
    ELSE IF ~s.isSignedIn /\ s.step = "CONFIRM_SIGN_IN_WITH_TOTP_CODE"
    THEN Ret("MFA", Undefined, calls, FALSE, FALSE)
    ELSE IF ~s.isSignedIn /\ s.step = "RESET_PASSWORD"
    THEN Ret("UpdatePassword", Undefined, calls, FALSE, FALSE)
    ELSE IF ~s.isSignedIn /\ s.step = "CONFIRM_SIGN_IN_WITH_NEW_PASSWORD_REQUIRED"
    THEN Ret("ResetPasswordConfirm", Undefined, calls, FALSE, FALSE)
    ELSE IF s.isSignedIn THEN SignInSignedIn(s, calls)
    ELSE Ret("Success", Undefined, calls, FALSE, FALSE)

\* lines 93-213: the if / else-if chain over the provider's result.
SignInBranch(s, calls) ==
    IF ~s.isSignedIn /\ s.step = "CONTINUE_SIGN_IN_WITH_TOTP_SETUP"
    THEN Ret("MFASetup", IF s.totp = "details" THEN SetupUri ELSE Undefined,
             calls, FALSE, FALSE)
    ELSE IF ~s.isSignedIn /\ s.step = "CONFIRM_SIGN_IN_WITH_TOTP_CODE"
    THEN Ret("MFA", Undefined, calls, FALSE, FALSE)
    ELSE IF ~s.isSignedIn /\ s.step = "RESET_PASSWORD"
    THEN Ret("ResetPasswordConfirm", Undefined, calls, FALSE, FALSE)
    ELSE IF ~s.isSignedIn /\ s.step = "CONFIRM_SIGN_IN_WITH_NEW_PASSWORD_REQUIRED"
    THEN Ret("UpdatePassword", Undefined, calls, FALSE, FALSE)
    ELSE IF s.isSignedIn THEN SignInSignedIn(s, calls)
    ELSE Ret("Success", Undefined, calls, FALSE, FALSE)

\* Mutant of SignInUser: signIn is retried after any error.
SignInUserRetriesAny(s) ==
    IF s.first = "ok" THEN SignInBranch(s, 1)
    ELSE IF s.signOut = "throws" THEN Threw(1)
    ELSE IF s.retry = "ok" THEN SignInBranch(s, 2)
    ELSE Threw(2)

\* lines 73-91: signIn, and once more after signOut when a user is already
\* signed in; any other error, and an error of that signOut, is rethrown.
SignInUser(s) ==
    IF s.first = "ok" THEN SignInBranch(s, 1)
    ELSE IF s.first = "error" THEN Threw(1)
    ELSE IF s.signOut = "throws" THEN Threw(1)
    ELSE IF s.retry = "ok" THEN SignInBranch(s, 2)
    ELSE Threw(2)

-----------------------------------------------------------------------------
(***************************************************************************)
(* The other wrappers of utils/auth.ts, each a function of what the        *)
(* provider answers.                                                       *)
(***************************************************************************)

VerifyOutcomes == {"signedIn", "notSignedIn", "confirmThrows", "sessionThrows"}

\* verifyMFACode: confirmSignIn, then fetchAuthSession; every error is caught.
VerifyMFACode(o) ==
    IF o = "confirmThrows" THEN "Failed"
    ELSE IF o = "signedIn" THEN "Success"
    ELSE IF o = "sessionThrows" THEN "Failed"
    ELSE "Failed"

EnableOutcomes == {"ok", "verifyThrows", "preferenceThrows", "sessionThrows"}

\* verifyAndEnableMFA: verifyTOTPSetup, updateMFAPreference; a failing token
\* fetch is logged and ignored.
VerifyAndEnableMFA(o) ==
    IF o \in {"verifyThrows", "preferenceThrows"} THEN "Failed" ELSE "Success"

UpdateOutcomes ==
    { "signInThrows", "otherStep", "confirmThrows",
      "totpSetup", "totpCode", "done" }

\* updatePassword: signIn with the temporary password, confirmSignIn with the
\* new one; every error is caught and returned as Failed.
UpdatePassword(o) ==
    IF o \in {"signInThrows", "otherStep", "confirmThrows"} THEN "Failed"
    ELSE IF o = "totpSetup" THEN "MFASetup"
    ELSE IF o = "totpCode" THEN "MFA"
    ELSE "Success"

ResetOutcomes == {"ok", "throws"}

\* confirmForgotPassword
ConfirmForgotPassword(o) == IF o = "ok" THEN "Success" ELSE "Failed"

SetupOutcomes == {"ok", "throws"}

\* setupMFA: status and setupUri
SetupMFA(o) ==
    IF o = "ok" THEN [status |-> "Success", setupUri |-> SetupUri]
    ELSE [status |-> "Failed", setupUri |-> Undefined]

PasskeyOutcomes == {"ok", "notSupported", "cancelled", "throws"}

\* registerPasskey
RegisterPasskey(o) ==
    IF o = "notSupported" THEN "NotSupported"
    ELSE IF o = "cancelled" THEN "Cancelled"
    ELSE IF o = "throws" THEN "Failed"
    ELSE "Success"

-----------------------------------------------------------------------------
(***************************************************************************)
(* Page flow                                                               *)
(***************************************************************************)

\* Bounds of the page-flow model.
MaxNavs    == 1     \* hash changes made by the user (back, forward, typing)
MaxPending == 1     \* handler invocations awaiting the provider at one time

\* Six .code-digit inputs; a code is six digits (mfa/component.ts line 83).
CodeLength == 6

Emails    == {"a@x"}
Passwords == {"Temp"}

\* Route table (routes.json): hash path -> child component of main-viewport.
RouteTable ==
    [ p \in { "/", "/login", "/mfa", "/mfa-setup", "/update-password",
              "/post-password-change", "/reset-password-confirm",
              "/forgot-password" } |->
        IF p \in {"/", "/login"} THEN "login"
        ELSE IF p = "/mfa" THEN "mfa"
        ELSE IF p = "/mfa-setup" THEN "mfa-setup"
        ELSE IF p = "/update-password" THEN "update-password"
        ELSE IF p = "/post-password-change" THEN "post-password-change"
        ELSE IF p = "/reset-password-confirm" THEN "reset-password-confirm"
        ELSE "forgot-password" ]

Paths == DOMAIN RouteTable
Views == { RouteTable[p] : p \in Paths }

\* A route of routes.json whose path is not in PUBLIC_ROUTES (query.ts lines
\* 41-42), and its child component.
PrivatePath  == "/account"
PrivateChild == "account"

AllRoutes ==
    [ p \in Paths \cup {PrivatePath} |->
        IF p = PrivatePath THEN PrivateChild ELSE RouteTable[p] ]

Components == Views \cup {PrivateChild}

\* Handlers that await a provider call.
Handlers ==
    { "login", "mfa", "mfa-setup", "update-password", "reset-password-confirm",
      "ppc-mfa", "ppc-passkey", "ppc-password-only",
      "login-passkey", "admin-login", "admin-passkey", "register",
      "forgot-password" }

\* View each handler's form or button belongs to.
ViewOf(h) ==
    IF h \in {"ppc-mfa", "ppc-passkey", "ppc-password-only"}
    THEN "post-password-change"
    ELSE IF h = "login-passkey" THEN "login"
    ELSE IF h = "admin-passkey" THEN "admin-login"
    ELSE h

Digits == {"0", "1", "2", "3", "4", "5", "6", "7", "8", "9"}

\* /^\d$/.test(val)
IsDigit(v) == v \in Digits

EmptyBoxes == [i \in 1..CodeLength |-> ""]

\* Array.from(digits).map(d => d.value).join(''): the characters in order.
\* A box holds at most one character once its input listener has run.
RECURSIVE JoinFrom(_, _)
JoinFrom(b, i) ==
    IF i > CodeLength THEN <<>>
    ELSE (IF b[i] = "" THEN <<>> ELSE <<b[i]>>) \o JoinFrom(b, i + 1)

Join(b) == JoinFrom(b, 1)

\* /^\d{6}$/.test(code)
IsSixDigits(code) ==
    Len(code) = CodeLength /\ \A i \in 1..Len(code) : IsDigit(code[i])

MsgFullCode == "Please enter a full 6-digit code"
MsgSession  == "Session error. Please log in again."
MsgOther    == "<another message>"

HiddenBanner == [visible |-> FALSE, text |-> ""]
FreshBtn     == [disabled |-> FALSE, spinner |-> FALSE]
FreshBtns    == [h \in Handlers |-> FreshBtn]

\* What a handler step is observed to do.
NoObs ==
    [ op |-> "none", h |-> "none", code |-> <<>>, status |-> Undefined,
      url |-> Undefined, call |-> "none", arg |-> Undefined, nav |-> "none",
      uri |-> <<>>, notify |-> "none", setPassword |-> FALSE,
      live |-> TRUE, btnDisabled |-> FALSE, spinnerHidden |-> TRUE,
      overlap |-> FALSE, error |-> "none" ]

siVars   == <<scn, out>>
flowVars == <<view, wired, hash, email, password, boxes, banner, btn, pending,
              timer, loginEmail, last, navs>>

routeVars == <<isMainViewportLoaded, currentComponent, cleanupCallbacks, slot,
               tasks, trackedHandlers, attached>>

poolVars == <<poolView, poolReady, isConfigured, amplify, adminPool, poolTasks,
              poolLast, poolNavs>>
libVars == <<loadedScripts, loadedStyles, head, loads, location, service, built,
             poolVars, granted>>

auxVars == <<spinnerInterval, hovering, webAuthn, libVars>>

vars == <<siVars, flowVars, routeVars, auxVars>>

\* encodeURIComponent(url) as written into the hash by the handlers.
EncodeURIComponent(u) == <<"enc", u>>

\* getHashQueryParam('uri'): null without a query, else the decoded value.
GetHashQueryParam(q) == IF q = <<>> THEN Null ELSE q[2]

\* !!value for the strings and null / undefined of the model
Truthy(v) == v \notin {Null, Undefined, ""}

Stale(P) == { [p EXCEPT !.live = FALSE] : p \in P }

\* A handler invocation suspended at an await: live says its elements are
\* still those of the document, stage counts the awaits it has passed.
Invocation(h, user, pw, setup) ==
    [ h |-> h, live |-> TRUE, user |-> user, pw |-> pw, setup |-> setup,
      stage |-> 1 ]

Loading == [disabled |-> TRUE, spinner |-> TRUE]

\* The hash carries no uri parameter.
NoUri == <<>>

Hash(path, q) == [path |-> path, uri |-> q]

\* location.hash becomes #path?uri=q.  An unchanged hash raises no hashchange
\* event.  Otherwise handleRoute runs: it destroys the shown component
\* (cleanupCurrentComponent, app.ts line 102: the registered destroy removes
\* the listeners) and calls updateChildView, which skips the reload when the
\* child is the one already shown, and otherwise injects the new child's HTML;
\* the child's init attaches its listeners later (ChildInit).  Route handling
\* is sequential here: a hash change during a load supersedes the load.  The
\* overlapping loads are the subject of SpecRoute.  P and B are the
\* invocations and the buttons the calling step leaves.
ShowRoute(path, q, P, B) ==
    /\ hash' = Hash(path, q)
    /\ IF Hash(path, q) = hash
       THEN /\ UNCHANGED <<view, wired, boxes, banner>>
            /\ btn' = B
            /\ pending' = P
       ELSE IF RouteTable[path] = view
       THEN /\ wired' = IF wired = "loading" THEN "loading" ELSE "removed"
            /\ UNCHANGED <<view, boxes, banner>>
            /\ btn' = B
            /\ pending' = P
       ELSE /\ view' = RouteTable[path]
            /\ wired' = "loading"
            /\ boxes' = EmptyBoxes
            /\ banner' = HiddenBanner
            /\ btn' = FreshBtns
            /\ pending' = Stale(P)

\* updateChildView, lines 126-141: the module is imported, its init awaits
\* its stylesheet and then attaches the listeners; destroy is registered.
ChildInit ==
    /\ view # "left"
    /\ wired = "loading"
    /\ wired' = "attached"
    /\ last' = [NoObs EXCEPT !.op = "init", !.h = view]
    /\ UNCHANGED <<view, hash, email, password, boxes, banner, btn, pending,
                   timer, loginEmail, navs>>
    /\ UNCHANGED <<siVars, routeVars, auxVars>>

\* window.location.href = getAuthEndpoint(): the document is left.
LeavePage ==
    /\ view' = "left"
    /\ UNCHANGED <<wired, hash, boxes, banner>>

\* The handler's button after it restored or kept the loading state; only a
\* button of the current DOM is part of the state.
BtnAfter(p, restored) ==
    IF p.live /\ restored THEN [btn EXCEPT ![p.h] = FreshBtn] ELSE btn

Observe(p, status, nav, notify, restored) ==
    [ NoObs EXCEPT !.op = "settle", !.h = p.h, !.status = status, !.nav = nav,
                   !.arg = p.user, !.notify = notify, !.live = p.live,
                   !.btnDisabled = ~restored, !.spinnerHidden = restored ]

(***************************************************************************)
(* mfa and mfa-setup components                                            *)
(***************************************************************************)

\* What an input event can leave in a box before the listener runs: nothing
\* (the box erased), a digit, another character.
RawInputs == {"", "7", "x"}

\* What the user types while the child is still loading.  A digit typed then
\* is the digit the listener would have kept.
EarlyInputs == {"", "x"}

\* inputListener of both components: a value that is not one digit is erased.
InputListener(b, i, v) == [b EXCEPT ![i] = IF IsDigit(v) THEN v ELSE ""]

\* The boxes the user types in: the first empty one (init focuses box 1 and
\* the listener moves the focus on after a digit, lines 34 and 43) and the
\* last filled one (Backspace moves the focus back, line 66).
FocusBoxes(b) ==
    { i \in 1..CodeLength :
        \/ b[i] = "" /\ \A j \in 1..(i - 1) : b[j] # ""
        \/ b[i] # "" /\ \A j \in (i + 1)..CodeLength : b[j] = "" }

\* An input event on the i-th .code-digit box leaving v in it.  Before init
\* has attached the listeners the value stays as typed.
DigitInput(i, v) ==
    /\ view \in {"mfa", "mfa-setup"}
    /\ wired \in {"loading", "attached"}
    /\ i \in FocusBoxes(boxes)
    /\ wired = "loading" => v \in EarlyInputs
    /\ boxes' = IF wired = "attached" THEN InputListener(boxes, i, v)
                ELSE [boxes EXCEPT ![i] = v]
    /\ banner' = IF wired = "attached" /\ IsSixDigits(Join(boxes'))
                 THEN HiddenBanner ELSE banner
    /\ last' = [NoObs EXCEPT !.op = "input"]
    /\ UNCHANGED <<view, wired, hash, email, password, btn, pending, timer,
                   loginEmail, navs>>
    /\ UNCHANGED <<siVars, routeVars, auxVars>>

\* mfa submitHandler, line 83: code.length !== 6 shows the banner.
MfaCodeOk(code) == Len(code) = CodeLength

\* mfa-setup submitListener, line 95 of the component: /^\d{6}$/.test(code)
MfaSetupCodeOk(code) == IsSixDigits(code)

\* (form as any).parsley?.(): form is the DOM element, which has no parsley
\* method (Parsley extends jQuery objects), so parsleyForm is undefined and
\* the guard !parsleyForm || parsleyForm.isValid() passes.
ParsleyGate == TRUE

\* mfa submitHandler up to its await (lines 79-108).
MfaSubmit ==
    /\ view = "mfa" /\ wired = "attached"
    /\ ~btn["mfa"].disabled
    /\ LET code == Join(boxes) IN
       IF ~MfaCodeOk(code)
       THEN /\ banner' = [visible |-> TRUE, text |-> MsgFullCode]
            /\ last' = [NoObs EXCEPT !.op = "submit", !.h = "mfa", !.code = code]
            /\ UNCHANGED <<btn, pending>>
       ELSE /\ Cardinality(pending) < MaxPending
            /\ banner' = HiddenBanner
            /\ btn' = [btn EXCEPT !["mfa"] = Loading]
            /\ pending' = pending \cup {Invocation("mfa", Undefined, Undefined, FALSE)}
            /\ last' = [NoObs EXCEPT !.op = "submit", !.h = "mfa", !.code = code,
                                     !.call = "verifyMFACode",
                                     !.btnDisabled = TRUE, !.spinnerHidden = FALSE]
    /\ UNCHANGED <<view, wired, hash, email, password, boxes, timer, loginEmail, navs>>
    /\ UNCHANGED <<siVars, routeVars, auxVars>>

\* Mutant of VerifyRedirects: the redirect made whatever the status.
VerifyRedirectsAlways(status) == TRUE

\* result.status === 'Success' in both components.
VerifyRedirects(status) == status = "Success"

\* mfa submitHandler after verifyMFACode settled (lines 109-129).
MfaSettle(p, o) ==
    /\ view # "left"
    /\ p \in pending /\ p.h = "mfa"
    /\ LET status == VerifyMFACode(o) IN
       IF VerifyRedirects(status)
       THEN /\ LeavePage
            /\ btn' = btn
            /\ pending' = pending \ {p}
            /\ last' = Observe(p, status, "auth", "none", FALSE)
       ELSE /\ btn' = BtnAfter(p, TRUE)
            /\ pending' = pending \ {p}
            /\ last' = Observe(p, status, "none", "error", TRUE)
            /\ UNCHANGED <<view, wired, hash, boxes, banner>>
    /\ UNCHANGED <<email, password, timer, loginEmail, navs>>
    /\ UNCHANGED <<siVars, routeVars, auxVars>>

MfaSettles == \E p \in pending, o \in VerifyOutcomes : MfaSettle(p, o)

\* mfa-setup submitListener up to the await of its async block (lines 89-128).
MfaSetupSubmit ==
    /\ view = "mfa-setup" /\ wired = "attached"
    /\ ~btn["mfa-setup"].disabled
    /\ ParsleyGate
    /\ LET code == Join(boxes)
           isSetup == Truthy(GetHashQueryParam(hash.uri)) IN
       IF ~MfaSetupCodeOk(code)
       THEN /\ banner' = [visible |-> TRUE, text |-> MsgFullCode]
            /\ last' = [NoObs EXCEPT !.op = "submit", !.h = "mfa-setup", !.code = code]
            /\ UNCHANGED <<btn, pending>>
       ELSE /\ Cardinality(pending) < MaxPending
            /\ banner' = HiddenBanner
            /\ btn' = [btn EXCEPT !["mfa-setup"] = Loading]
            /\ pending' = pending \cup {Invocation("mfa-setup", Undefined, Undefined, isSetup)}
            /\ last' = [NoObs EXCEPT !.op = "submit", !.h = "mfa-setup", !.code = code,
                                     !.call = IF isSetup THEN "verifyAndEnableMFA"
                                              ELSE "verifyMFACode",
                                     !.btnDisabled = TRUE, !.spinnerHidden = FALSE]
    /\ UNCHANGED <<view, wired, hash, email, password, boxes, timer, loginEmail, navs>>
    /\ UNCHANGED <<siVars, routeVars, auxVars>>

\* mfa-setup after the verify function settled (lines 130-153).
MfaSetupSettle(p, status) ==
    /\ view # "left"
    /\ p \in pending /\ p.h = "mfa-setup"
    /\ IF VerifyRedirects(status)
       THEN /\ email' = Null            \* clearEmail()
            /\ LeavePage
            /\ btn' = btn
            /\ pending' = pending \ {p}
            /\ last' = Observe(p, status, "auth", "none", FALSE)
       ELSE /\ btn' = BtnAfter(p, TRUE)
            /\ pending' = pending \ {p}
            /\ last' = Observe(p, status, "none", "error", TRUE)
            /\ UNCHANGED <<view, wired, hash, boxes, banner, email>>
    /\ UNCHANGED <<password, timer, loginEmail, navs>>
    /\ UNCHANGED <<siVars, routeVars, auxVars>>

MfaSetupSettles ==
    \E p \in pending :
        \/ /\ p.setup
           /\ \E o \in EnableOutcomes : MfaSetupSettle(p, VerifyAndEnableMFA(o))
        \/ /\ ~p.setup
           /\ \E o \in VerifyOutcomes : MfaSetupSettle(p, VerifyMFACode(o))

(***************************************************************************)
(* login component                                                         *)
(***************************************************************************)

\* The distinct results signInUser can produce.
SignInResults == { SignInUser(s) : s \in ProviderOutputs }

Step(nav, uri) == [nav |-> nav, uri |-> uri]

\* Mutant of LoginNextStep: the 'MFA' case falls through to 'UpdatePassword'.
LoginNextStepFallThrough(o) ==
    IF o.status = "MFASetup"
    THEN IF ~Truthy(o.mfaSetupUrl)
         THEN Step("/post-password-change", <<>>)
         ELSE Step("/mfa-setup", EncodeURIComponent(o.mfaSetupUrl))
    ELSE IF o.status = "MFA" THEN Step("/update-password", <<>>)
    ELSE IF o.status = "UpdatePassword" THEN Step("/update-password", <<>>)
    ELSE IF o.status = "ResetPasswordConfirm" THEN Step("/reset-password-confirm", <<>>)
    ELSE IF o.status = "Success" THEN Step("auth", <<>>)
    ELSE Step("none", <<>>)

\* login submitHandler, the switch over signInOutput.status (lines 69-124):
\* the hash it navigates to, "auth" for the auth endpoint, "none" for none.
LoginNextStep(o) ==
    IF o.status = "MFASetup"
    THEN IF ~Truthy(o.mfaSetupUrl)
         THEN Step("/post-password-change", <<>>)
         ELSE Step("/mfa-setup", EncodeURIComponent(o.mfaSetupUrl))
    ELSE IF o.status = "MFA" THEN Step("/mfa", <<>>)
    ELSE IF o.status = "UpdatePassword" THEN Step("/update-password", <<>>)
    ELSE IF o.status = "ResetPasswordConfirm" THEN Step("/reset-password-confirm", <<>>)
    ELSE IF o.status = "Success" THEN Step("auth", <<>>)
    ELSE Step("none", <<>>)

\* login submitHandler up to the await of signInUser (lines 34-66); max
\* bounds the invocations in flight.  overlap: a signInUser call of an
\* earlier submission of this form is still awaited.
LoginSubmitWithin(user, pw, parsleyValid, max) ==
    /\ view = "login" /\ wired = "attached"
    /\ ~btn["login"].disabled
    /\ IF ~parsleyValid \/ ~Truthy(user) \/ ~Truthy(pw)
       THEN /\ last' = [NoObs EXCEPT !.op = "submit", !.h = "login"]
            /\ UNCHANGED <<btn, pending, loginEmail>>
       ELSE /\ Cardinality(pending) < max
            /\ btn' = [btn EXCEPT !["login"] = Loading]
            /\ pending' = pending \cup {Invocation("login", user, pw, FALSE)}
            /\ loginEmail' = user
            /\ last' = [NoObs EXCEPT !.op = "submit", !.h = "login",
                                     !.call = "signInUser", !.arg = user,
                                     !.btnDisabled = TRUE, !.spinnerHidden = FALSE,
                                     !.overlap = \E q \in pending :
                                                    q.h = "login" /\ q.live]
    /\ UNCHANGED <<view, wired, hash, email, password, boxes, banner, timer, navs>>
    /\ UNCHANGED <<siVars, routeVars, auxVars>>

LoginSubmit(user, pw, parsleyValid) ==
    LoginSubmitWithin(user, pw, parsleyValid, MaxPending)

\* setEmail / setPassword of the switch (lines 72, 87-88, 93).
LoginEmailAfter(p, o) ==
    IF o.status \in {"MFASetup", "UpdatePassword", "ResetPasswordConfirm"}
    THEN p.user ELSE email

LoginPasswordAfter(p, o) ==
    IF o.status = "UpdatePassword" THEN p.pw ELSE password

\* What the message of an error thrown by signInUser can hold.
ThrownMessages == {"Unexpected token", "other"}

\* login submitHandler after signInUser settled (lines 67-143); m is the
\* message of the error when signInUser threw.  An error whose message holds
\* 'Unexpected token' is not notified (lines 135-138).  'PasskeyRequired'
\* clears the interval of the passkey button (lines 100-103).
LoginSettle(p, o, m) ==
    /\ view # "left"
    /\ p \in pending /\ p.h = "login"
    /\ IF o.threw
       THEN /\ btn' = BtnAfter(p, TRUE)
            /\ pending' = pending \ {p}
            /\ last' = Observe(p, "<threw>", "none",
                               IF m = "Unexpected token" THEN "none" ELSE "error",
                               TRUE)
            /\ UNCHANGED <<view, wired, hash, boxes, banner, email, password>>
       ELSE LET step == LoginNextStep(o)
                restored == o.status \notin
                    { "MFASetup", "MFA", "UpdatePassword",
                      "ResetPasswordConfirm", "Success" }
                obs == [ Observe(p, o.status, step.nav,
                                 IF o.status = "PasskeyRequired" THEN "warning"
                                 ELSE "none", restored)
                         EXCEPT !.url = o.mfaSetupUrl, !.uri = step.uri,
                                !.setPassword = (o.status = "UpdatePassword") ]
            IN
            /\ email' = LoginEmailAfter(p, o)
            /\ password' = LoginPasswordAfter(p, o)
            /\ last' = obs
            /\ IF step.nav = "none"
               THEN /\ btn' = BtnAfter(p, restored)
                    /\ pending' = pending \ {p}
                    /\ UNCHANGED <<view, wired, hash, boxes, banner>>
               ELSE IF step.nav = "auth"
               THEN /\ LeavePage
                    /\ btn' = btn
                    /\ pending' = pending \ {p}
               ELSE ShowRoute(step.nav, step.uri, pending \ {p}, btn)
    /\ spinnerInterval' =
           IF ~o.threw /\ o.status = "PasskeyRequired"
           THEN spinnerInterval \ {"login-passkey"} ELSE spinnerInterval
    /\ UNCHANGED <<timer, loginEmail, navs, hovering, webAuthn>>
    /\ UNCHANGED <<siVars, routeVars, libVars>>

LoginSettles ==
    \E p \in pending, o \in SignInResults, m \in ThrownMessages :
        LoginSettle(p, o, m)

\* forgotClickHandler (lines 151-157): setEmail(username), #/forgot-password.
ForgotLinkClick(user) ==
    /\ view = "login" /\ wired = "attached"
    /\ email' = user
    /\ ShowRoute("/forgot-password", NoUri, pending, btn)
    /\ last' = [NoObs EXCEPT !.op = "click", !.h = "forgot-link",
                             !.nav = "/forgot-password"]
    /\ UNCHANGED <<password, timer, loginEmail, navs>>
    /\ UNCHANGED <<siVars, routeVars, auxVars>>

(***************************************************************************)
(* update-password component                                               *)
(***************************************************************************)

\* Minimum length of a new password (update-password/component.ts line 131).
MinPasswordLength == 12

UpperChars   == {"A"}
DigitChars   == {"1"}
SpecialChars == {"!", "_"}

Rep(c, n) == [i \in 1..n |-> c]

\* Field values a user may type, as character sequences.
StrongPw    == <<"A", "1", "!">> \o Rep("a", MinPasswordLength - 3)
OtherStrong == <<"A", "1", "_">> \o Rep("b", MinPasswordLength - 3)
ShortPw     == <<"A", "1", "!">> \o Rep("a", MinPasswordLength - 4)
NoUpperPw   == <<"a", "1", "!">> \o Rep("a", MinPasswordLength - 3)
NoDigitPw   == <<"A", "a", "!">> \o Rep("a", MinPasswordLength - 3)
NoSpecialPw == <<"A", "1", "a">> \o Rep("a", MinPasswordLength - 3)
BlankPw     == <<" ", " ">>
TempPw      == <<"T", "e", "m", "p">>

NewPasswords ==
    { StrongPw, OtherStrong, ShortPw, NoUpperPw, NoDigitPw, NoSpecialPw,
      BlankPw, <<>> }

RECURSIVE TrimLeft(_)
TrimLeft(t) == IF t # <<>> /\ Head(t) = " " THEN TrimLeft(Tail(t)) ELSE t

RECURSIVE TrimRight(_)
TrimRight(t) ==
    IF t # <<>> /\ t[Len(t)] = " " THEN TrimRight(SubSeq(t, 1, Len(t) - 1)) ELSE t

\* String.prototype.trim
Trim(t) == TrimRight(TrimLeft(t))

HasChar(t, cs) == \E i \in 1..Len(t) : t[i] \in cs

\* extractFormValues(form): every field value trimmed (utils/form.ts).
ExtractFormValues(f) ==
    [ currentPassword |-> Trim(f.currentPassword),
      newPassword     |-> Trim(f.newPassword),
      confirmPassword |-> Trim(f.confirmPassword) ]

UpdateForms ==
    [ currentPassword : {TempPw, <<>>},
      newPassword     : NewPasswords,
      confirmPassword : {StrongPw, OtherStrong, <<>>} ]

\* Mutant of UpdateFormErrors: the confirmation is not compared.
UpdateFormErrorsNoMatch(v) ==
    (IF Trim(v.currentPassword) = <<>> THEN {"currentPassword"} ELSE {})
    \cup (IF Trim(v.newPassword) = <<>> THEN {"newPassword"} ELSE {})
    \cup (IF Trim(v.confirmPassword) = <<>> THEN {"confirmPassword"} ELSE {})
    \cup (IF /\ Trim(v.newPassword) # <<>>
             /\ \/ Len(v.newPassword) < MinPasswordLength
                \/ ~HasChar(v.newPassword, UpperChars)
                \/ ~HasChar(v.newPassword, DigitChars)
                \/ ~HasChar(v.newPassword, SpecialChars)
          THEN {"newPassword"} ELSE {})

\* update-password submitHandler, lines 111-145: the fields in error.
UpdateFormErrors(v) ==
    (IF Trim(v.currentPassword) = <<>> THEN {"currentPassword"} ELSE {})
    \cup (IF Trim(v.newPassword) = <<>> THEN {"newPassword"} ELSE {})
    \cup (IF Trim(v.confirmPassword) = <<>> THEN {"confirmPassword"} ELSE {})
    \cup (IF /\ Trim(v.newPassword) # <<>>
             /\ \/ Len(v.newPassword) < MinPasswordLength
                \/ ~HasChar(v.newPassword, UpperChars)
                \/ ~HasChar(v.newPassword, DigitChars)
                \/ ~HasChar(v.newPassword, SpecialChars)
          THEN {"newPassword"} ELSE {})
    \cup (IF /\ v.newPassword # <<>> /\ v.confirmPassword # <<>>
             /\ v.newPassword # v.confirmPassword
          THEN {"confirmPassword"} ELSE {})

\* if (!email): null and the empty string are missing.
EmailMissing(e) == ~Truthy(e)

\* update-password submitHandler up to the await (lines 103-170).
UpdatePasswordSubmit(f) ==
    /\ view = "update-password" /\ wired = "attached"
    /\ ~btn["update-password"].disabled
    /\ LET v == ExtractFormValues(f) IN
       IF UpdateFormErrors(v) # {}
       THEN /\ last' = [NoObs EXCEPT !.op = "submit", !.h = "update-password",
                                     !.notify = "fieldError"]
            /\ UNCHANGED <<btn, pending>>
       ELSE IF EmailMissing(email)
       THEN /\ last' = [NoObs EXCEPT !.op = "submit", !.h = "update-password"]
            /\ UNCHANGED <<btn, pending>>
       ELSE /\ Cardinality(pending) < MaxPending
            /\ btn' = [btn EXCEPT !["update-password"] = Loading]
            /\ pending' = pending \cup
                            {Invocation("update-password", email, Undefined, FALSE)}
            /\ last' = [NoObs EXCEPT !.op = "submit", !.h = "update-password",
                                     !.call = "updatePassword", !.arg = email,
                                     !.btnDisabled = TRUE, !.spinnerHidden = FALSE]
    /\ UNCHANGED <<view, wired, hash, email, password, boxes, banner, timer,
                   loginEmail, navs>>
    /\ UNCHANGED <<siVars, routeVars, auxVars>>

\* update-password submitHandler after updatePassword settled (lines 170-188).
UpdatePasswordSettle(p, o) ==
    /\ view # "left"
    /\ p \in pending /\ p.h = "update-password"
    /\ password' = Null                 \* clearPassword()
    /\ LET status == UpdatePassword(o) IN
       IF status = "Success"
       THEN /\ ShowRoute("/post-password-change", NoUri, pending \ {p}, btn)
            /\ last' = Observe(p, status, "/post-password-change", "none", FALSE)
       ELSE /\ btn' = BtnAfter(p, TRUE)
            /\ pending' = pending \ {p}
            /\ last' = Observe(p, status, "none", "error", TRUE)
            /\ UNCHANGED <<view, wired, hash, boxes, banner>>
    /\ UNCHANGED <<email, timer, loginEmail, navs>>
    /\ UNCHANGED <<siVars, routeVars, auxVars>>

UpdatePasswordSettles == \E p \in pending, o \in UpdateOutcomes : UpdatePasswordSettle(p, o)

(***************************************************************************)
(* forgot-password component                                               *)
(***************************************************************************)

\* What resetPassword does for one call.
SendOutcomes == {"sent", "rejected"}

\* sendResetCode (query.ts lines 272-281): a rejection of resetPassword is
\* caught and returned as status 'Failed'; the function never throws.
SendResetCode(o) == IF o = "sent" THEN "Success" ELSE "Failed"

\* submitHandler up to the await (part_000 lines 219-228): a blank email is
\* reported and nothing is sent.
ForgotSubmit(typed) ==
    /\ view = "forgot-password" /\ wired = "attached"
    /\ IF Trim(typed) = <<>>
       THEN /\ last' = [NoObs EXCEPT !.op = "submit", !.h = "forgot-password",
                                     !.notify = "error"]
            /\ UNCHANGED pending
       ELSE /\ Cardinality(pending) < MaxPending
            /\ pending' = pending \cup
                     {Invocation("forgot-password", Undefined, Undefined, FALSE)}
            /\ last' = [NoObs EXCEPT !.op = "submit", !.h = "forgot-password",
                                     !.call = "sendResetCode"]
    /\ UNCHANGED <<view, wired, hash, email, password, boxes, banner, btn, timer,
                   loginEmail, navs>>
    /\ UNCHANGED <<siVars, routeVars, auxVars>>

\* submitHandler after sendResetCode settled (lines 229-231): the returned
\* status is not looked at; the catch of lines 232-234 is never entered.
ForgotSettle(p, o) ==
    /\ view # "left"
    /\ p \in pending /\ p.h = "forgot-password"
    /\ ShowRoute("/reset-password-confirm", NoUri, pending \ {p}, btn)
    /\ last' = Observe(p, SendResetCode(o), "/reset-password-confirm",
                       "success", FALSE)
    /\ UNCHANGED <<email, password, timer, loginEmail, navs>>
    /\ UNCHANGED <<siVars, routeVars, auxVars>>

ForgotSettles == \E p \in pending, o \in SendOutcomes : ForgotSettle(p, o)

(***************************************************************************)
(* reset-password-confirm component                                        *)
(***************************************************************************)

\* submitListener up to the await (lines 63-68); the form has no validation
\* and its button is never disabled.
ResetConfirmSubmit ==
    /\ view = "reset-password-confirm" /\ wired = "attached"
    /\ Cardinality(pending) < MaxPending
    /\ pending' = pending \cup
                    {Invocation("reset-password-confirm", Undefined, Undefined, FALSE)}
    /\ last' = [NoObs EXCEPT !.op = "submit", !.h = "reset-password-confirm",
                             !.call = "confirmForgotPassword"]
    /\ UNCHANGED <<view, wired, hash, email, password, boxes, banner, btn, timer,
                   loginEmail, navs>>
    /\ UNCHANGED <<siVars, routeVars, auxVars>>

\* submitListener after confirmForgotPassword settled (lines 69-74).
ResetConfirmSettle(p, o) ==
    /\ view # "left"
    /\ p \in pending /\ p.h = "reset-password-confirm"
    /\ LET status == ConfirmForgotPassword(o) IN
       IF status = "Success"
       THEN /\ ShowRoute("/", NoUri, pending \ {p}, btn)
            /\ last' = Observe(p, status, "/", "success", FALSE)
       ELSE /\ pending' = pending \ {p}
            /\ last' = Observe(p, status, "none", "error", FALSE)
            /\ UNCHANGED <<view, wired, hash, boxes, banner, btn>>
    /\ UNCHANGED <<email, password, timer, loginEmail, navs>>
    /\ UNCHANGED <<siVars, routeVars, auxVars>>

ResetConfirmSettles == \E p \in pending, o \in ResetOutcomes : ResetConfirmSettle(p, o)

(***************************************************************************)
(* post-password-change component                                          *)
(***************************************************************************)

\* showError(message) of an invocation: #error-message of its own DOM.
BannerAfter(p, text) ==
    IF p.live THEN [visible |-> TRUE, text |-> text] ELSE banner

\* mfaClickHandler up to its await (lines 228-243).
PpcMfaClick ==
    /\ view = "post-password-change" /\ wired = "attached"
    /\ IF EmailMissing(email)
       THEN /\ banner' = [visible |-> TRUE, text |-> MsgSession]
            /\ last' = [NoObs EXCEPT !.op = "click", !.h = "ppc-mfa"]
            /\ UNCHANGED pending
       ELSE /\ Cardinality(pending) < MaxPending
            /\ banner' = HiddenBanner
            /\ pending' = pending \cup {Invocation("ppc-mfa", email, Undefined, FALSE)}
            /\ last' = [NoObs EXCEPT !.op = "click", !.h = "ppc-mfa",
                                     !.call = "setupMFA", !.arg = email]
    /\ UNCHANGED <<view, wired, hash, email, password, boxes, btn, timer,
                   loginEmail, navs>>
    /\ UNCHANGED <<siVars, routeVars, auxVars>>

\* mfaClickHandler after setupMFA settled (lines 245-251).
PpcMfaSettle(p, o) ==
    /\ view # "left"
    /\ p \in pending /\ p.h = "ppc-mfa"
    /\ LET r == SetupMFA(o) IN
       IF r.status = "Success" /\ Truthy(r.setupUri)
       THEN /\ ShowRoute("/mfa-setup", EncodeURIComponent(r.setupUri),
                         pending \ {p}, btn)
            /\ last' = [ Observe(p, r.status, "/mfa-setup", "none", FALSE)
                         EXCEPT !.uri = EncodeURIComponent(r.setupUri) ]
       ELSE /\ banner' = BannerAfter(p, MsgOther)
            /\ pending' = pending \ {p}
            /\ last' = Observe(p, r.status, "none", "banner", FALSE)
            /\ UNCHANGED <<view, wired, hash, boxes, btn>>
    /\ UNCHANGED <<email, password, timer, loginEmail, navs>>
    /\ UNCHANGED <<siVars, routeVars, auxVars>>

PpcMfaSettles == \E p \in pending, o \in SetupOutcomes : PpcMfaSettle(p, o)

\* updateUserAuthMethod(method): it resolves or it rejects.
AuthMethodOutcomes == {"ok", "throws"}

\* createPasskeyClickHandler up to the await of registerPasskey (lines 289-303).
PpcPasskeyClick ==
    /\ view = "post-password-change" /\ wired = "attached"
    /\ ~btn["ppc-passkey"].disabled
    /\ Cardinality(pending) < MaxPending
    /\ banner' = HiddenBanner
    /\ btn' = [btn EXCEPT !["ppc-passkey"] = Loading]
    /\ pending' = pending \cup {Invocation("ppc-passkey", Undefined, Undefined, FALSE)}
    /\ last' = [NoObs EXCEPT !.op = "click", !.h = "ppc-passkey",
                             !.call = "registerPasskey",
                             !.btnDisabled = TRUE, !.spinnerHidden = FALSE]
    /\ UNCHANGED <<view, wired, hash, email, password, boxes, timer,
                   loginEmail, navs>>
    /\ UNCHANGED <<siVars, routeVars, auxVars>>

\* createPasskeyClickHandler after registerPasskey settled (lines 305-327):
\* on Success it awaits updateUserAuthMethod('passkey').
PpcPasskeySettle(p, o) ==
    /\ view # "left"
    /\ p \in pending /\ p.h = "ppc-passkey" /\ p.stage = 1
    /\ LET status == RegisterPasskey(o) IN
       IF status = "Success"
       THEN /\ pending' = (pending \ {p}) \cup {[p EXCEPT !.stage = 2]}
            /\ last' = [ Observe(p, status, "none", "none", FALSE)
                         EXCEPT !.call = "updateUserAuthMethod" ]
            /\ UNCHANGED <<btn, banner>>
       ELSE /\ btn' = BtnAfter(p, TRUE)
            /\ banner' = BannerAfter(p, MsgOther)
            /\ pending' = pending \ {p}
            /\ last' = Observe(p, status, "none", "banner", TRUE)
    /\ UNCHANGED <<view, wired, hash, email, password, boxes, timer,
                   loginEmail, navs>>
    /\ UNCHANGED <<siVars, routeVars, auxVars>>

PpcPasskeySettles == \E p \in pending, o \in PasskeyOutcomes : PpcPasskeySettle(p, o)

\* confirmPasswordOnlyHandler up to its await (lines 400-413).
PpcPasswordOnlyClick ==
    /\ view = "post-password-change" /\ wired = "attached"
    /\ ~btn["ppc-password-only"].disabled
    /\ Cardinality(pending) < MaxPending
    /\ banner' = HiddenBanner
    /\ btn' = [btn EXCEPT !["ppc-password-only"] = Loading]
    /\ pending' = pending \cup
                    {[Invocation("ppc-password-only", Undefined, Undefined, FALSE)
                        EXCEPT !.stage = 2]}
    /\ last' = [NoObs EXCEPT !.op = "click", !.h = "ppc-password-only",
                             !.call = "updateUserAuthMethod",
                             !.btnDisabled = TRUE, !.spinnerHidden = FALSE]
    /\ UNCHANGED <<view, wired, hash, email, password, boxes, timer,
                   loginEmail, navs>>
    /\ UNCHANGED <<siVars, routeVars, auxVars>>

\* Both handlers after updateUserAuthMethod settled (lines 308-318, 414-424,
\* and the catch blocks): success notification, clearEmail(), and the
\* redirect armed for 1500 ms later.
PpcAuthMethodSettle(p, a) ==
    /\ view # "left"
    /\ p \in pending /\ p.h \in {"ppc-passkey", "ppc-password-only"} /\ p.stage = 2
    /\ pending' = pending \ {p}
    /\ IF a = "ok"
       THEN /\ email' = Null
            /\ timer' = TRUE
            /\ last' = Observe(p, "Success", "timer", "success", FALSE)
            /\ UNCHANGED btn
       ELSE /\ btn' = BtnAfter(p, TRUE)
            /\ last' = Observe(p, "<threw>", "none", "error", TRUE)
            /\ UNCHANGED <<email, timer>>
    /\ UNCHANGED <<view, wired, hash, password, boxes, banner, loginEmail, navs>>
    /\ UNCHANGED <<siVars, routeVars, auxVars>>

PpcAuthMethodSettles == \E p \in pending, a \in AuthMethodOutcomes : PpcAuthMethodSettle(p, a)

\* The setTimeout callback: window.location.href = getAuthEndpoint().
TimerFire ==
    /\ view # "left"
    /\ timer
    /\ timer' = FALSE
    /\ LeavePage
    /\ last' = [NoObs EXCEPT !.op = "timer", !.nav = "auth"]
    /\ UNCHANGED <<email, password, btn, pending, loginEmail, navs>>
    /\ UNCHANGED <<siVars, routeVars, auxVars>>

(***************************************************************************)
(* The user changes the hash (address bar, back and forward buttons).      *)
(***************************************************************************)

Queries(path) ==
    IF path = "/mfa-setup" THEN {NoUri, EncodeURIComponent(SetupUri)}
    ELSE {NoUri}

UserNav(path, q) ==
    /\ view # "left"
    /\ navs < MaxNavs
    /\ navs' = navs + 1
    /\ ShowRoute(path, q, pending, btn)
    /\ last' = [NoObs EXCEPT !.op = "nav", !.nav = path]
    /\ UNCHANGED <<email, password, timer, loginEmail>>
    /\ UNCHANGED <<siVars, routeVars, auxVars>>

-----------------------------------------------------------------------------

\* The variables a specification does not use keep these values.
SignInIdle == scn = Undefined /\ out = NotCalled

LoadersIdle ==
    loadedScripts = {} /\ loadedStyles = {} /\ head = <<>> /\ loads = 0

\* buildServiceUrl has not been called.
NotBuilt == [kind |-> "none", text |-> <<>>]

UrlIdle == location = Undefined /\ service = Undefined /\ built = NotBuilt

NoPoolObs == [op |-> "none", from |-> "none", pool |-> "none"]

PoolIdle ==
    /\ poolView = "login" /\ poolReady = FALSE /\ isConfigured = FALSE
    /\ amplify = "none" /\ adminPool = TRUE /\ poolTasks = {}
    /\ poolLast = NoPoolObs /\ poolNavs = 0
    /\ granted = {}

AuxIdle ==
    /\ spinnerInterval = {} /\ hovering = FALSE /\ webAuthn = TRUE
    /\ LoadersIdle /\ UrlIdle /\ PoolIdle

FlowIdle ==
    /\ view = "login" /\ wired = "loading" /\ hash = Hash("/", NoUri)
    /\ email = Null /\ password = Null
    /\ boxes = EmptyBoxes /\ banner = HiddenBanner /\ btn = FreshBtns
    /\ pending = {} /\ timer = FALSE /\ loginEmail = Null
    /\ last = NoObs /\ navs = 0

RouteIdle ==
    /\ isMainViewportLoaded = FALSE /\ currentComponent = Null
    /\ cleanupCallbacks = <<>> /\ slot = Undefined /\ tasks = {}
    /\ trackedHandlers = Undefined /\ attached = {}

(***************************************************************************)
(* Spec: the page flow.  The document is loaded at #/ with the login child *)
(* injected, and the globals of utils/state.ts null.                       *)
(***************************************************************************)
Init == SignInIdle /\ FlowIdle /\ RouteIdle /\ AuxIdle

LoginInputs == Emails \cup {""}

\* What #email of the forgot-password form holds at a submit.
ForgotInputs == {<<>>, <<" ">>, <<"a", "@", "x">>}

Next ==
    \/ ChildInit
    \/ \E i \in 1..CodeLength, v \in RawInputs :
           DigitInput(i, v)
    \/ MfaSubmit
    \/ MfaSettles
    \/ MfaSetupSubmit
    \/ MfaSetupSettles
    \/ \E user \in LoginInputs, pw \in Passwords \cup {""}, ok \in BOOLEAN :
           LoginSubmit(user, pw, ok)
    \/ LoginSettles
    \/ \E user \in LoginInputs :
           ForgotLinkClick(user)
    \/ \E f \in UpdateForms :
           UpdatePasswordSubmit(f)
    \/ UpdatePasswordSettles
    \/ ResetConfirmSubmit
    \/ ResetConfirmSettles
    \/ PpcMfaClick
    \/ PpcMfaSettles
    \/ PpcPasskeyClick
    \/ PpcPasskeySettles
    \/ PpcPasswordOnlyClick
    \/ PpcAuthMethodSettles
    \/ TimerFire
    \/ \E path \in Paths : \E q \in Queries(path) :
           UserNav(path, q)

Spec == Init /\ [][Next]_vars

(***************************************************************************)
(* SpecLogin: the sign-in pages.  login (src/unnamed/part_001), admin-login *)
(* (src/unnamed/part_002) and register (src/unnamed/part_003) are shown    *)
(* initialised; the user submits the form, clicks the passkey button and    *)
(* moves the pointer over and off the passkey section while provider calls  *)
(* are in flight.                                                           *)
(***************************************************************************)

\* Sign-in requests the page may have in flight.
MaxSignIns == 2

SignInViews == {"login", "admin-login", "register"}

\* Hash path a sign-in page is served under (PUBLIC_ROUTES, query.ts 41-42).
PathOfView(v) ==
    IF v = "login" THEN "/" ELSE IF v = "admin-login" THEN "/login/admin"
    ELSE "/register"

PasskeyBtnOf(v) == IF v = "login" THEN "login-passkey" ELSE "admin-passkey"

\* What the user types into the password field of a sign-in form.
LoginPasswords == Passwords \cup {"Other"}

pageRest == <<view, wired, hash, email, password, boxes, banner, timer,
              loginEmail, navs>>

\* handlePasskeyHover (part_001 lines 178-188, part_002 lines 298-308):
\* mouseenter on the passkey section disables the submit button.
PasskeyHover ==
    /\ view \in {"login", "admin-login"} /\ wired = "attached"
    /\ ~hovering
    /\ hovering' = TRUE
    /\ btn' = [btn EXCEPT ![view].disabled = TRUE]
    /\ last' = [NoObs EXCEPT !.op = "mouseenter", !.h = view]
    /\ UNCHANGED <<pageRest, pending, spinnerInterval, webAuthn>>
    /\ UNCHANGED <<siVars, routeVars, libVars>>

\* handlePasskeyLeave (part_001 lines 190-200, part_002 lines 310-320):
\* mouseleave enables the submit button, whatever disabled it.
PasskeyLeave ==
    /\ view \in {"login", "admin-login"} /\ wired = "attached"
    /\ hovering
    /\ hovering' = FALSE
    /\ btn' = [btn EXCEPT ![view].disabled = FALSE]
    /\ last' = [NoObs EXCEPT !.op = "mouseleave", !.h = view]
    /\ UNCHANGED <<pageRest, pending, spinnerInterval, webAuthn>>
    /\ UNCHANGED <<siVars, routeVars, libVars>>

\* setInterval(ensureSpinnerVisible, 200) firing (part_001 lines 254-263,
\* part_002 lines 376-385): the passkey button is put back into its loading
\* state.
SpinnerTick(b) ==
    /\ b \in spinnerInterval
    /\ view = ViewOf(b) /\ wired = "attached"
    /\ btn[b] # Loading
    /\ btn' = [btn EXCEPT ![b] = Loading]
    /\ last' = [NoObs EXCEPT !.op = "tick", !.h = b,
                             !.btnDisabled = TRUE, !.spinnerHidden = FALSE]
    /\ UNCHANGED <<pageRest, pending, auxVars>>
    /\ UNCHANGED <<siVars, routeVars, libVars>>

\* What the provider answers to signIn with preferredChallenge WEB_AUTHN:
\* signed in (the session then fetched or not), a next step, or an error.
PasskeySignInOutcomes ==
    { "signedIn", "signedInSessionThrows", "DONE", "noWebAuthnChallenge",
      "otherStep", "noNextStep", "NotAllowedError", "EmptySignInPassword",
      "InvalidStateError", "otherError" }

PasskeyErrors ==
    {"NotAllowedError", "EmptySignInPassword", "InvalidStateError", "otherError"}

ErrorOf(o) == IF o \in PasskeyErrors THEN o ELSE "none"

\* signInWithPasskey (query.ts lines 283-377): the status it returns.  A
\* failure to fetch the session after signing in is swallowed (line 323).
SignInWithPasskey(supported, o) ==
    IF ~supported THEN "NotSupported"
    ELSE IF o \in {"signedIn", "signedInSessionThrows", "DONE"} THEN "Success"
    ELSE IF o = "noWebAuthnChallenge" THEN "NoPasskey"
    ELSE IF o \in {"otherStep", "noNextStep"} THEN "Failed"
    ELSE IF o = "NotAllowedError" THEN "Cancelled"
    ELSE IF o \in {"EmptySignInPassword", "InvalidStateError"} THEN "NoPasskey"
    ELSE "Failed"

\* Mutant of LoginPasskeyNotify: an unhandled status is notified as an error.
LoginPasskeyNotifyAll(status) ==
    IF status = "NoPasskey" THEN "warning"
    ELSE IF status = "Success" THEN "none"
    ELSE "error"

\* The notification of the switch in the login passkeyClickHandler
\* (part_001 lines 274-314).
LoginPasskeyNotify(status) ==
    IF status = "NoPasskey" THEN "warning"
    ELSE IF status = "NotSupported" THEN "error"
    ELSE "none"

\* login passkeyClickHandler up to the await (part_001 lines 220-264).
LoginPasskeyClick(user) ==
    /\ view = "login" /\ wired = "attached"
    /\ ~btn["login-passkey"].disabled
    /\ IF ~Truthy(user)
       THEN /\ last' = [NoObs EXCEPT !.op = "click", !.h = "login-passkey",
                                     !.notify = "warning"]
            /\ UNCHANGED <<btn, pending, spinnerInterval>>
       ELSE /\ Cardinality(pending) < MaxSignIns
            /\ btn' = [btn EXCEPT !["login-passkey"] = Loading]
            /\ spinnerInterval' = spinnerInterval \cup {"login-passkey"}
            /\ pending' = pending \cup {Invocation("login-passkey", user, "", FALSE)}
            /\ last' = [NoObs EXCEPT !.op = "click", !.h = "login-passkey",
                                     !.call = "signInWithPasskey", !.arg = user,
                                     !.btnDisabled = TRUE, !.spinnerHidden = FALSE]
    /\ UNCHANGED <<pageRest, hovering, webAuthn>>
    /\ UNCHANGED <<siVars, routeVars, libVars>>

\* login passkeyClickHandler after signInWithPasskey settled (part_001 lines
\* 265-314): the interval is cleared, 'Success' redirects, every other status
\* restores the button.
LoginPasskeySettle(p, o) ==
    /\ view # "left"
    /\ p \in pending /\ p.h = "login-passkey"
    /\ LET status == SignInWithPasskey(webAuthn, o)
           obs(nav, restored) ==
               [ Observe(p, status, nav, LoginPasskeyNotify(status), restored)
                 EXCEPT !.error = IF webAuthn THEN ErrorOf(o) ELSE "none" ]
       IN
       /\ spinnerInterval' = spinnerInterval \ {"login-passkey"}
       /\ pending' = pending \ {p}
       /\ IF status = "Success"
          THEN /\ LeavePage
               /\ btn' = btn
               /\ last' = obs("auth", FALSE)
          ELSE /\ btn' = BtnAfter(p, TRUE)
               /\ last' = obs("none", TRUE)
               /\ UNCHANGED <<view, wired, hash, boxes, banner>>
    /\ UNCHANGED <<email, password, timer, loginEmail, navs, hovering, webAuthn>>
    /\ UNCHANGED <<siVars, routeVars, libVars>>

\* What the provider answers to the signIn of the admin-login form, and to
\* the calls that follow it.
AdminOutcomes ==
    { "signInThrows", "totpSetup", "totpCode", "resetPassword", "newPassword",
      "otherStep", "signedInNoPasskeys", "signedInListThrows",
      "signedInPasskeys", "signedInPasskeysSignOutThrows" }

AdminStep(nav, uri, notify, restored, setEmail) ==
    [ nav |-> nav, uri |-> uri, notify |-> notify, restored |-> restored,
      setEmail |-> setEmail ]

\* The branches of the admin-login submitHandler after signIn settled
\* (part_002 lines 183-259).  The chain of else-ifs has no final else: a
\* result that is not signed in and names another step runs no branch.
AdminNextStep(o) ==
    IF o = "signInThrows" THEN AdminStep("none", NoUri, "error", TRUE, FALSE)
    ELSE IF o = "totpSetup"
    THEN AdminStep("/mfa-setup", EncodeURIComponent(SetupUri), "none", FALSE, FALSE)
    ELSE IF o = "totpCode" THEN AdminStep("/mfa", NoUri, "none", FALSE, FALSE)
    ELSE IF o = "resetPassword"
    THEN AdminStep("/reset-password-confirm", NoUri, "none", FALSE, TRUE)
    ELSE IF o = "newPassword" THEN AdminStep("none", NoUri, "warning", TRUE, FALSE)
    ELSE IF o = "signedInPasskeys" THEN AdminStep("none", NoUri, "warning", TRUE, FALSE)
    ELSE IF o \in {"signedInNoPasskeys", "signedInListThrows",
                   "signedInPasskeysSignOutThrows"}
    THEN AdminStep("auth", NoUri, "none", FALSE, FALSE)
    ELSE AdminStep("none", NoUri, "none", FALSE, FALSE)

\* admin-login submitHandler up to the await of signIn (part_002 lines
\* 152-183).
AdminSubmit(user, pw, parsleyValid) ==
    /\ view = "admin-login" /\ wired = "attached"
    /\ ~btn["admin-login"].disabled
    /\ IF ~parsleyValid \/ ~Truthy(user) \/ ~Truthy(pw)
       THEN /\ last' = [NoObs EXCEPT !.op = "submit", !.h = "admin-login"]
            /\ UNCHANGED <<btn, pending>>
       ELSE /\ Cardinality(pending) < MaxSignIns
            /\ btn' = [btn EXCEPT !["admin-login"] = Loading]
            /\ pending' = pending \cup {Invocation("admin-login", user, pw, FALSE)}
            /\ last' = [NoObs EXCEPT !.op = "submit", !.h = "admin-login",
                                     !.call = "signIn", !.arg = user,
                                     !.btnDisabled = TRUE, !.spinnerHidden = FALSE,
                                     !.overlap = \E q \in pending :
                                                    q.h = "admin-login" /\ q.live]
    /\ UNCHANGED <<pageRest, auxVars>>
    /\ UNCHANGED <<siVars, routeVars, libVars>>

\* admin-login submitHandler after signIn settled (part_002 lines 183-261).
AdminSettle(p, o) ==
    /\ view # "left"
    /\ p \in pending /\ p.h = "admin-login"
    /\ LET step == AdminNextStep(o)
       IN
       /\ email' = IF step.setEmail THEN p.user ELSE email
       /\ last' = [ Observe(p, o, step.nav, step.notify, step.restored)
                    EXCEPT !.uri = step.uri ]
       /\ IF step.nav = "none"
          THEN /\ btn' = BtnAfter(p, step.restored)
               /\ pending' = pending \ {p}
               /\ UNCHANGED <<view, wired, hash, boxes, banner>>
          ELSE IF step.nav = "auth"
          THEN /\ LeavePage
               /\ btn' = btn
               /\ pending' = pending \ {p}
          ELSE ShowRoute(step.nav, step.uri, pending \ {p}, btn)
    /\ UNCHANGED <<password, timer, loginEmail, navs, auxVars>>
    /\ UNCHANGED <<siVars, routeVars, libVars>>

AdminPasskeyStep(nav, notify, restored) ==
    [ nav |-> nav, notify |-> notify, restored |-> restored ]

\* The branches of the admin-login passkeyClickHandler after signIn settled
\* (part_002 lines 404-531).
AdminPasskeyNextStep(o) ==
    IF o \in {"signedIn", "DONE"} THEN AdminPasskeyStep("auth", "none", FALSE)
    ELSE IF o = "signedInSessionThrows" THEN AdminPasskeyStep("none", "error", TRUE)
    ELSE IF o = "noWebAuthnChallenge" THEN AdminPasskeyStep("none", "warning", TRUE)
    ELSE IF o \in {"otherStep", "noNextStep"} THEN AdminPasskeyStep("none", "error", TRUE)
    ELSE IF o = "NotAllowedError" THEN AdminPasskeyStep("none", "none", TRUE)
    ELSE IF o \in {"EmptySignInPassword", "InvalidStateError"}
    THEN AdminPasskeyStep("none", "warning", TRUE)
    ELSE AdminPasskeyStep("none", "error", TRUE)

\* admin-login passkeyClickHandler up to the await of signIn (part_002 lines
\* 340-411).  Without WebAuthn it notifies, restores the button and returns
\* with its interval still running (lines 393-401).
AdminPasskeyClick(user) ==
    /\ view = "admin-login" /\ wired = "attached"
    /\ ~btn["admin-passkey"].disabled
    /\ IF ~Truthy(user)
       THEN /\ last' = [NoObs EXCEPT !.op = "click", !.h = "admin-passkey",
                                     !.notify = "warning"]
            /\ UNCHANGED <<btn, pending, spinnerInterval>>
       ELSE IF ~webAuthn
       THEN /\ spinnerInterval' = spinnerInterval \cup {"admin-passkey"}
            /\ last' = [NoObs EXCEPT !.op = "click", !.h = "admin-passkey",
                                     !.status = "NotSupported", !.notify = "error"]
            /\ UNCHANGED <<btn, pending>>
       ELSE /\ Cardinality(pending) < MaxSignIns
            /\ btn' = [btn EXCEPT !["admin-passkey"] = Loading]
            /\ spinnerInterval' = spinnerInterval \cup {"admin-passkey"}
            /\ pending' = pending \cup {Invocation("admin-passkey", user, "", FALSE)}
            /\ last' = [NoObs EXCEPT !.op = "click", !.h = "admin-passkey",
                                     !.call = "signIn", !.arg = user,
                                     !.btnDisabled = TRUE, !.spinnerHidden = FALSE]
    /\ UNCHANGED <<pageRest, hovering, webAuthn>>
    /\ UNCHANGED <<siVars, routeVars, libVars>>

\* admin-login passkeyClickHandler after signIn settled: the interval is
\* cleared on both paths (lines 415-417 and 495-497).
AdminPasskeySettle(p, o) ==
    /\ view # "left"
    /\ p \in pending /\ p.h = "admin-passkey"
    /\ LET step == AdminPasskeyNextStep(o)
       IN
       /\ spinnerInterval' = spinnerInterval \ {"admin-passkey"}
       /\ pending' = pending \ {p}
       /\ last' = [ Observe(p, o, step.nav, step.notify, step.restored)
                    EXCEPT !.error = ErrorOf(o) ]
       /\ IF step.nav = "auth"
          THEN /\ LeavePage
               /\ btn' = btn
          ELSE /\ btn' = BtnAfter(p, step.restored)
               /\ UNCHANGED <<view, wired, hash, boxes, banner>>
    /\ UNCHANGED <<email, password, timer, loginEmail, navs, hovering, webAuthn>>
    /\ UNCHANGED <<siVars, routeVars, libVars>>

\* register submitHandler up to the await (part_003 lines 69-93).
RegisterSubmit(filled, parsleyValid) ==
    /\ view = "register" /\ wired = "attached"
    /\ ~btn["register"].disabled
    /\ IF ~parsleyValid
       THEN /\ last' = [NoObs EXCEPT !.op = "submit", !.h = "register"]
            /\ UNCHANGED <<btn, pending>>
       ELSE IF ~filled
       THEN /\ last' = [NoObs EXCEPT !.op = "submit", !.h = "register",
                                     !.notify = "error"]
            /\ UNCHANGED <<btn, pending>>
       ELSE /\ Cardinality(pending) < MaxSignIns
            /\ btn' = [btn EXCEPT !["register"] = Loading]
            /\ pending' = pending \cup {Invocation("register", "a@x", "", FALSE)}
            /\ last' = [NoObs EXCEPT !.op = "submit", !.h = "register",
                                     !.call = "submitRegistrationRequest",
                                     !.btnDisabled = TRUE, !.spinnerHidden = FALSE]
    /\ UNCHANGED <<pageRest, auxVars>>
    /\ UNCHANGED <<siVars, routeVars, libVars>>

\* register submitHandler after submitRegistrationRequest settled (part_003
\* lines 94-108).  The request is a timer that always resolves (lines 37-39):
\* the success container replaces the form.
RegisterSettle(p) ==
    /\ view # "left"
    /\ p \in pending /\ p.h = "register"
    /\ pending' = pending \ {p}
    /\ last' = Observe(p, "Success", "none", "none", FALSE)
    /\ UNCHANGED <<pageRest, btn, auxVars>>
    /\ UNCHANGED <<siVars, routeVars, libVars>>

InitLogin ==
    /\ SignInIdle /\ RouteIdle
    /\ view \in SignInViews /\ wired = "attached"
    /\ hash = Hash(PathOfView(view), NoUri)
    /\ email = Null /\ password = Null
    /\ boxes = EmptyBoxes /\ banner = HiddenBanner /\ btn = FreshBtns
    /\ pending = {} /\ timer = FALSE /\ loginEmail = Null
    /\ last = NoObs /\ navs = 0
    /\ spinnerInterval = {} /\ hovering = FALSE /\ webAuthn \in BOOLEAN
    /\ LoadersIdle /\ UrlIdle /\ PoolIdle

NextLogin ==
    \/ \E user \in LoginInputs, pw \in LoginPasswords, ok \in BOOLEAN :
           LoginSubmitWithin(user, pw, ok, MaxSignIns)
    \/ LoginSettles
    \/ PasskeyHover
    \/ PasskeyLeave
    \/ \E b \in {"login-passkey", "admin-passkey"} : SpinnerTick(b)
    \/ \E user \in LoginInputs : LoginPasskeyClick(user)
    \/ \E p \in pending, o \in PasskeySignInOutcomes : LoginPasskeySettle(p, o)
    \/ \E user \in LoginInputs, pw \in LoginPasswords, ok \in BOOLEAN :
           AdminSubmit(user, pw, ok)
    \/ \E p \in pending, o \in AdminOutcomes : AdminSettle(p, o)
    \/ \E user \in LoginInputs : AdminPasskeyClick(user)
    \/ \E p \in pending, o \in PasskeySignInOutcomes : AdminPasskeySettle(p, o)
    \/ \E filled, ok \in BOOLEAN : RegisterSubmit(filled, ok)
    \/ \E p \in pending : RegisterSettle(p)
    \/ \E user \in LoginInputs : ForgotLinkClick(user)
    \/ ChildInit
    \/ \E typed \in ForgotInputs : ForgotSubmit(typed)
    \/ ForgotSettles

SpecLogin == InitLogin /\ [][NextLogin]_vars

(***************************************************************************)
(* SpecLoaders: loadScriptOnce and loadStylesheetOnce of utils/loaders.ts,  *)
(* called while earlier loads are still in flight.                          *)
(***************************************************************************)

\* Calls of the two loaders in one behaviour.
MaxLoads == 3

AssetKinds == {"script", "link"}
AssetSrcs  == {"a", "b"}

\* `${src}?v=${ASSET_VERSION}` (lines 19 and 123).
VersionedUrl(src) == <<src, "?v=", "ASSET_VERSION">>

\* The set a loader consults: loadedScripts or loadedStyles.
LoadedOf(kind) == IF kind = "script" THEN loadedScripts ELSE loadedStyles

loaderRest == <<location, service, built, spinnerInterval, hovering, webAuthn,
                poolVars, granted>>

\* loadScriptOnce (lines 17-52) and loadStylesheetOnce (lines 120-156) up to
\* the return of the promise: nothing when the url is in the set, else an
\* element is created and appended to document.head.  The url enters the set
\* in onload only.
LoadOnce(kind, src) ==
    /\ loads < MaxLoads
    /\ loads' = loads + 1
    /\ head' = IF VersionedUrl(src) \in LoadedOf(kind)
               THEN head
               ELSE Append(head, [ kind |-> kind, url |-> VersionedUrl(src),
                                   state |-> "loading" ])
    /\ UNCHANGED <<loadedScripts, loadedStyles, loaderRest>>
    /\ UNCHANGED <<siVars, flowVars, routeVars>>

\* script.onload / link.onload (lines 32-35, 136-139).
OnLoad(i) ==
    /\ i \in DOMAIN head /\ head[i].state = "loading"
    /\ head' = [head EXCEPT ![i].state = "loaded"]
    /\ loadedScripts' = IF head[i].kind = "script"
                        THEN loadedScripts \cup {head[i].url} ELSE loadedScripts
    /\ loadedStyles' = IF head[i].kind = "link"
                       THEN loadedStyles \cup {head[i].url} ELSE loadedStyles
    /\ UNCHANGED <<loads, loaderRest>>
    /\ UNCHANGED <<siVars, flowVars, routeVars>>

\* script.onerror / link.onerror (lines 38-42, 142-146): the promise
\* resolves, the url does not enter the set, the element stays in the head.
OnError(i) ==
    /\ i \in DOMAIN head /\ head[i].state = "loading"
    /\ head' = [head EXCEPT ![i].state = "failed"]
    /\ UNCHANGED <<loadedScripts, loadedStyles, loads, loaderRest>>
    /\ UNCHANGED <<siVars, flowVars, routeVars>>

InitLoaders ==
    /\ SignInIdle /\ FlowIdle /\ RouteIdle
    /\ spinnerInterval = {} /\ hovering = FALSE /\ webAuthn = TRUE
    /\ LoadersIdle /\ UrlIdle /\ PoolIdle

NextLoaders ==
    \/ \E kind \in AssetKinds, src \in AssetSrcs : LoadOnce(kind, src)
    \/ \E i \in DOMAIN head : OnLoad(i)
    \/ \E i \in DOMAIN head : OnError(i)

SpecLoaders == InitLoaders /\ [][NextLoaders]_vars

\* Elements of the head for one url.
Appended(kind, url) ==
    Cardinality({ i \in DOMAIN head : head[i].kind = kind /\ head[i].url = url })

\* C17: over any sequence of calls of loadScriptOnce and loadStylesheetOnce
\* with the same url, calls that overlap before the first load has completed
\* included, the element for that url is appended to the document at most
\* once.
C17_AppendedAtMostOnce ==
    \A kind \in AssetKinds, src \in AssetSrcs :
        Appended(kind, VersionedUrl(src)) <= 1

(***************************************************************************)
(* SpecUrl: buildServiceUrl (src/unnamed/part_003 lines 761-811) applied to *)
(* every location of a bounded set.  A string is the sequence of its        *)
(* pieces: "." is the dot, ":5173" a port suffix, and "local", "openlogx",  *)
(* "com" and "x" are runs of characters without dots, "x" standing for any  *)
(* text that holds none of the others.  So "x.openlogx.com" is              *)
(* <<"x", ".", "openlogx", ".", "com">>, "xlocal" is <<"x", "local">> and   *)
(* "openlogx.community" is <<"openlogx", ".", "com", "x">>.                 *)
(***************************************************************************)

\* Pieces of window.location.hostname.
MaxHostLen == 5

HostPieces == {".", "local", "openlogx", "com", "x"}
Protocols  == {"http:", "https:"}
Ports      == {"", "5173"}
Services   == {"api", "auth", "ws"}

Hostnames == UNION { [1..n -> HostPieces] : n \in 1..MaxHostLen }

\* window.location.host: the hostname, then ':' and the port when there is one.
HostOf(loc) ==
    IF loc.port = "" THEN loc.hostname ELSE Append(loc.hostname, ":5173")

\* String.prototype.includes
Includes(str, needle) ==
    \E i \in 0..(Len(str) - Len(needle)) :
        SubSeq(str, i + 1, i + Len(needle)) = needle

\* String.prototype.split('.'): the parts between the dots, empty parts kept.
RECURSIVE SplitDots(_)
SplitDots(str) ==
    IF \A i \in 1..Len(str) : str[i] # "."
    THEN <<str>>
    ELSE LET d == CHOOSE i \in 1..Len(str) :
                      str[i] = "." /\ \A j \in 1..(i - 1) : str[j] # "."
         IN <<SubSeq(str, 1, d - 1)>> \o SplitDots(SubSeq(str, d + 1, Len(str)))

\* Array.prototype.join('.')
RECURSIVE JoinDots(_)
JoinDots(parts) ==
    IF Len(parts) = 0 THEN <<>>
    ELSE IF Len(parts) = 1 THEN parts[1]
    ELSE parts[1] \o <<".">> \o JoinDots(Tail(parts))

\* Mutant of FindOpenlogx: the last part equal to 'openlogx' is found.
FindLastOpenlogx(parts) ==
    IF \E i \in 1..Len(parts) : parts[i] = <<"openlogx">>
    THEN (CHOOSE i \in 1..Len(parts) :
              /\ parts[i] = <<"openlogx">>
              /\ \A j \in (i + 1)..Len(parts) : parts[j] # <<"openlogx">>) - 1
    ELSE 0 - 1

\* parts.findIndex(part => part === 'openlogx') (line 785): the zero-based
\* index of the first such part, -1 without one.
FindOpenlogx(parts) ==
    IF \E i \in 1..Len(parts) : parts[i] = <<"openlogx">>
    THEN (CHOOSE i \in 1..Len(parts) :
              /\ parts[i] = <<"openlogx">>
              /\ \A j \in 1..(i - 1) : parts[j] # <<"openlogx">>) - 1
    ELSE 0 - 1

\* parts.splice(index, 0, item) (line 787)
Splice(parts, index, item) ==
    SubSeq(parts, 1, index) \o <<item>> \o SubSeq(parts, index + 1, Len(parts))

Text(t) == [kind |-> "text", text |-> t]

\* The switch for local development (lines 767-778).
LocalFallback(svc, loc) ==
    IF svc = "auth" THEN Text(<<"BASE_URL", "secure/">>)
    ELSE IF svc = "api" THEN Text(<<"/api/">>)
    ELSE Text(<<"ws://localhost:", loc.port, "/ws/">>)

\* The switch for unexpected domains (lines 796-806).
Fallback(svc) ==
    IF svc = "auth" THEN Text(<<"BASE_URL", "secure/">>)
    ELSE IF svc = "api" THEN Text(<<"/api/">>)
    ELSE Text(<<"/ws/">>)

\* buildServiceUrl (lines 761-811).
BuildServiceUrl(svc, loc) ==
    LET currentHost == HostOf(loc)
        parts == SplitDots(currentHost)
        openlogxIndex == FindOpenlogx(parts)
        baseUrl == <<loc.protocol, "//">>
                       \o JoinDots(Splice(parts, openlogxIndex, <<svc>>))
    IN
    IF Includes(currentHost, <<"local">>) THEN LocalFallback(svc, loc)
    ELSE IF /\ Includes(currentHost, <<".", "openlogx", ".", "com">>)
            /\ Len(parts) >= 3
            /\ openlogxIndex >= 0
    THEN IF svc = "auth" THEN Text(baseUrl \o <<"/callback">>) ELSE Text(baseUrl)
    ELSE Fallback(svc)

InitUrl ==
    /\ SignInIdle /\ FlowIdle /\ RouteIdle
    /\ spinnerInterval = {} /\ hovering = FALSE /\ webAuthn = TRUE
    /\ LoadersIdle /\ PoolIdle
    /\ location \in [protocol : Protocols, hostname : Hostnames, port : Ports]
    /\ service \in Services
    /\ built = NotBuilt

CallBuildServiceUrl ==
    /\ built = NotBuilt
    /\ built' = BuildServiceUrl(service, location)
    /\ UNCHANGED <<location, service, loadedScripts, loadedStyles, head, loads,
                   spinnerInterval, hovering, webAuthn, poolVars, granted>>
    /\ UNCHANGED <<siVars, flowVars, routeVars>>

NextUrl == CallBuildServiceUrl

SpecUrl == InitUrl /\ [][NextUrl]_vars

\* The host holds a dot-separated label equal to 'openlogx' at piece k.
OpenlogxLabelAt(h, k) ==
    /\ k \in 1..Len(h) /\ h[k] = "openlogx"
    /\ (k = 1 \/ h[k - 1] = ".")
    /\ (k = Len(h) \/ h[k + 1] = ".")

\* Labels of a host: one more than its dots.
LabelCount(h) == Cardinality({ i \in 1..Len(h) : h[i] = "." }) + 1

InitSignIn ==
    /\ scn \in ProviderOutputs
    /\ out = NotCalled
    /\ FlowIdle /\ RouteIdle /\ AuxIdle

CallSignIn ==
    /\ out = NotCalled
    /\ out' = SignInUser(scn)
    /\ UNCHANGED <<scn, flowVars, routeVars, auxVars>>

NextSignIn == CallSignIn

SpecSignIn == InitSignIn /\ [][NextSignIn]_vars

-----------------------------------------------------------------------------
(***************************************************************************)
(* SpecRoute: app.ts handleRoute, main-viewport initializeLayout and       *)
(* updateChildView, and the init / destroy of the child components, each   *)
(* invocation split at its awaits.  The document loads at any hash of the  *)
(* route table; hash changes arrive once the layout is loaded, and may     *)
(* overlap the child loads still in flight.                                *)
(***************************************************************************)

MaxHashChanges == 3

flowRest == <<view, wired, email, password, boxes, banner, btn, pending, timer,
              loginEmail>>

NoRouteObs ==
    [ op |-> "none", comp |-> "none", calls |-> 0, quiet |-> FALSE,
      destroyed |-> {}, removed |-> 0 ]

\* The listeners a component's init attaches when it finds its own elements:
\* the form's submit listener, input listeners, click listeners.
OwnListeners(c) ==
    CASE c = "login" -> {"submit", "click"}
      [] c = "post-password-change" -> {"click"}
      [] c = "forgot-password" -> {"submit"}
      [] OTHER -> {"input", "submit"}

\* The listeners init of component c attaches when the slot holds html: it
\* looks its elements up in the document by id.  mfa and mfa-setup share
\* #mfa-form and .code-digit, but mfa-setup returns without #qrcode;
\* update-password and reset-password-confirm share #newPassword.
ListenerNames(c, html) ==
    IF c = html THEN OwnListeners(c)
    ELSE IF c = "mfa" /\ html = "mfa-setup" THEN {"input", "submit"}
    ELSE IF {c, html} = {"update-password", "reset-password-confirm"}
    THEN {"input"}
    ELSE {}

\* form.addEventListener on a form that is not in the document throws
\* (update-password line 202, reset-password-confirm line 77); the other
\* components guard the lookup.
InitThrows(c, html) ==
    c \in {"update-password", "reset-password-confirm"} /\ c # html

\* Mutant of TrackedOf: the input listeners are attached but not tracked.
TrackedForgetsInput(ls) == { l \in ls : l.name # "input" }

\* trackedHandlers.push after every addEventListener of an init.
TrackedOf(ls) == ls

RECURSIVE SeqToSet(_)
SeqToSet(q) == IF q = <<>> THEN {} ELSE {Head(q)} \cup SeqToSet(Tail(q))

\* destroy() of the modules cs: every tracked listener removed from its
\* element, the tracked lists emptied.
AttachedAfterDestroy(cs) == attached \ UNION { trackedHandlers[c] : c \in cs }

TrackedAfterDestroy(cs) ==
    [c \in Components |-> IF c \in cs THEN {} ELSE trackedHandlers[c]]

\* cleanupCurrentComponent (app.ts lines 52-61): every registered destroy is
\* popped and called.
CleanupCurrentComponent ==
    LET cs == SeqToSet(cleanupCallbacks) IN
    /\ cleanupCallbacks' = <<>>
    /\ attached' = AttachedAfterDestroy(cs)
    /\ trackedHandlers' = TrackedAfterDestroy(cs)

\* Replacing the content of <main> or of #main-slot takes the elements that
\* were there out of the document; the listeners still on them can no
\* longer be told apart by any event.
Detach(ls) == { [l EXCEPT !.gen = 0, !.task = 0] : l \in ls }

\* A handleRoute invocation suspended at an await: comp is the child it
\* loads, layout says it is a first load (lines 105-124), sgen the #main-slot
\* element updateChildView captured (line 94).
Task(id, pc, comp, layout) ==
    [id |-> id, pc |-> pc, comp |-> comp, layout |-> layout, sgen |-> 0]

\* initializeLayout, lines 71-76: routes[path] || routes['/'], where path is
\* the hash with its query string, which is a key only without a query.
LayoutChild(h) ==
    IF h.uri = NoUri THEN AllRoutes[h.path] ELSE AllRoutes["/"]

\* handleRoute, lines 66-68: the query is split off before the lookup.
RouteChild(h) == AllRoutes[h.path]

InitRoute ==
    /\ SignInIdle /\ AuxIdle
    /\ hash \in { Hash(path, q) : path \in Paths, q \in {NoUri, EncodeURIComponent(SetupUri)} }
    /\ hash.uri # NoUri => hash.path = "/mfa-setup"
    /\ view = "login" /\ wired = "loading"
    /\ email = Null /\ password = Null
    /\ boxes = EmptyBoxes /\ banner = HiddenBanner /\ btn = FreshBtns
    /\ pending = {} /\ timer = FALSE /\ loginEmail = Null
    /\ last = NoRouteObs /\ navs = 0
    /\ isMainViewportLoaded = FALSE /\ currentComponent = Null
    /\ cleanupCallbacks = <<>>
    /\ slot = [html |-> "none", gen |-> 0]
    /\ tasks = {Task(0, "layoutFetch", "none", TRUE)}
    /\ trackedHandlers = [c \in Components |-> {}]
    /\ attached = {}

\* handleRoute of the first load, lines 109-110: the layout HTML arrives and
\* replaces <main>, with an empty #main-slot.
LayoutInject(t) ==
    /\ t \in tasks /\ t.pc = "layoutFetch"
    /\ slot' = [html |-> "none", gen |-> slot.gen + 1]
    /\ attached' = Detach(attached)
    /\ trackedHandlers' = [c \in Components |-> Detach(trackedHandlers[c])]
    /\ tasks' = (tasks \ {t}) \cup {[t EXCEPT !.pc = "layoutInit"]}
    /\ last' = NoRouteObs
    /\ UNCHANGED <<isMainViewportLoaded, currentComponent, cleanupCallbacks,
                   hash, navs>>
    /\ UNCHANGED <<siVars, flowRest, auxVars>>

\* updateChildView up to its first await (lines 86-104) for child c, entered
\* by task t: T is the set of the other tasks.
UpdateChildViewStart(c, t, T) ==
    IF c = currentComponent
    THEN /\ tasks' = T
         /\ isMainViewportLoaded' = (isMainViewportLoaded \/ t.layout)
         /\ UNCHANGED currentComponent
    ELSE /\ currentComponent' = c
         /\ tasks' = T \cup {[t EXCEPT !.pc = "fetch", !.comp = c,
                                         !.sgen = slot.gen]}
         /\ UNCHANGED isMainViewportLoaded

\* The first load continues (lines 120-123 and initializeLayout): the layout
\* module is initialised and the child of the current hash is loaded.
LayoutRoute(t) ==
    /\ t \in tasks /\ t.pc = "layoutInit"
    /\ UpdateChildViewStart(LayoutChild(hash), t, tasks \ {t})
    /\ IF LayoutChild(hash) = currentComponent
       THEN UNCHANGED <<cleanupCallbacks, attached, trackedHandlers>>
       ELSE CleanupCurrentComponent      \* updateChildView line 101
    /\ last' = NoRouteObs
    /\ UNCHANGED <<slot, hash, navs>>
    /\ UNCHANGED <<siVars, flowRest, auxVars>>

\* A hashchange event: handleRoute (lines 65-128) with the layout loaded.
Nav(path, q) ==
    /\ isMainViewportLoaded
    /\ navs < MaxHashChanges
    /\ Hash(path, q) # hash
    /\ hash' = Hash(path, q)
    /\ navs' = navs + 1
    /\ CleanupCurrentComponent      \* app.ts line 102; nothing is left for
                                    \* the call in updateChildView
    /\ UpdateChildViewStart(RouteChild(hash'), Task(navs + 1, "start", "none", FALSE),
                            tasks)
    /\ last' = [NoRouteObs EXCEPT
                  !.op = "nav", !.destroyed = SeqToSet(cleanupCallbacks),
                  !.removed = Cardinality(attached) - Cardinality(attached')]
    /\ UNCHANGED slot
    /\ UNCHANGED <<siVars, flowRest, auxVars>>

\* updateChildView, lines 104-106: the child's HTML arrives and replaces the
\* content of #main-slot.
ChildInject(t) ==
    /\ t \in tasks /\ t.pc = "fetch"
    /\ IF t.sgen = slot.gen
       THEN /\ slot' = [slot EXCEPT !.html = t.comp]
            /\ attached' = Detach(attached)
            /\ trackedHandlers' = [c \in Components |-> Detach(trackedHandlers[c])]
       ELSE \* the captured element was replaced with the layout
            UNCHANGED <<slot, attached, trackedHandlers>>
    /\ tasks' = (tasks \ {t}) \cup {[t EXCEPT !.pc = "init"]}
    /\ last' = NoRouteObs
    /\ UNCHANGED <<isMainViewportLoaded, currentComponent, cleanupCallbacks,
                   hash, navs>>
    /\ UNCHANGED <<siVars, flowRest, auxVars>>

\* updateChildView, lines 136-141: the child's init, resumed after its
\* stylesheet, attaches its listeners to the elements now in the document;
\* destroy is registered unless init threw.
ChildAttach(t) ==
    /\ t \in tasks /\ t.pc = "init"
    /\ LET ls == { [comp |-> t.comp, name |-> n, gen |-> slot.gen, task |-> t.id] :
                     n \in ListenerNames(t.comp, slot.html) }
       IN /\ attached' = attached \cup ls
          /\ trackedHandlers' =
                [trackedHandlers EXCEPT ![t.comp] = @ \cup TrackedOf(ls)]
    /\ cleanupCallbacks' = IF InitThrows(t.comp, slot.html) THEN cleanupCallbacks
                           ELSE Append(cleanupCallbacks, t.comp)
    /\ tasks' = tasks \ {t}
    /\ isMainViewportLoaded' = (isMainViewportLoaded \/ t.layout)
    /\ last' = NoRouteObs
    /\ UNCHANGED <<currentComponent, slot, hash, navs>>
    /\ UNCHANGED <<siVars, flowRest, auxVars>>

\* A submit event on the code form shown in the slot, six digits entered:
\* every submit listener on the form runs and calls its verify function.
SubmitEvent ==
    /\ slot.html \in {"mfa", "mfa-setup"}
    /\ last' = [NoRouteObs EXCEPT
                  !.op = "submit", !.comp = slot.html, !.quiet = (tasks = {}),
                  !.calls = Cardinality({ l \in attached :
                                            l.gen = slot.gen /\ l.name = "submit" })]
    /\ UNCHANGED <<hash, navs, routeVars, auxVars>>
    /\ UNCHANGED <<siVars, flowRest, auxVars>>

NextRoute ==
    \/ \E t \in tasks : LayoutInject(t)
    \/ \E t \in tasks : LayoutRoute(t)
    \/ \E path \in Paths : \E q \in Queries(path) : Nav(path, q)
    \/ \E t \in tasks : ChildInject(t)
    \/ \E t \in tasks : ChildAttach(t)
    \/ SubmitEvent

SpecRoute == InitRoute /\ [][NextRoute]_vars

(***************************************************************************)
(* SpecBoot: the same router with hashchange events from the start.  The   *)
(* listener is registered when app.ts is evaluated (line 131), so a hash   *)
(* change can arrive while the first handleRoute still loads the layout;   *)
(* the route table holds a route that needs a session.                     *)
(***************************************************************************)

MaxBootNavs == 2

BootPaths == {"/", "/mfa", PrivatePath}

\* Auth.PUBLIC_ROUTES.includes(routePath), query.ts lines 41-42.
IsPublic(path) == path # PrivatePath

\* handleRoute from line 102 on, for invocation t that routes to child c: the
\* registered destroys run, then the layout is loaded when
\* isMainViewportLoaded is false and the child is updated otherwise.  T is
\* the set of the other invocations.
HandleRouteProceed(t, c, T) ==
    /\ CleanupCurrentComponent
    /\ IF ~isMainViewportLoaded
       THEN /\ tasks' = T \cup {[t EXCEPT !.pc = "layoutFetch", !.comp = "none",
                                          !.layout = TRUE]}
            /\ UNCHANGED <<isMainViewportLoaded, currentComponent>>
       ELSE UpdateChildViewStart(c, [t EXCEPT !.layout = FALSE], T)

\* handleRoute up to its first await (lines 65-102): a route outside
\* PUBLIC_ROUTES awaits checkSession, any other route proceeds.
HandleRouteStart(id, h, T) ==
    IF IsPublic(h.path)
    THEN HandleRouteProceed(Task(id, "start", "none", FALSE), RouteChild(h), T)
    ELSE /\ tasks' = T \cup {Task(id, "session", RouteChild(h), FALSE)}
         /\ UNCHANGED <<isMainViewportLoaded, currentComponent, cleanupCallbacks,
                        attached, trackedHandlers>>

\* A hashchange event at any time after the bootstrap called handleRoute.
BootHashChange(path) ==
    /\ navs < MaxBootNavs
    /\ Hash(path, NoUri) # hash
    /\ hash' = Hash(path, NoUri)
    /\ navs' = navs + 1
    /\ HandleRouteStart(navs + 1, hash', tasks)
    /\ last' = [NoRouteObs EXCEPT !.op = "nav"]
    /\ UNCHANGED <<slot, granted>>
    /\ UNCHANGED <<siVars, flowRest, spinnerInterval, hovering, webAuthn,
                   loadedScripts, loadedStyles, head, loads, location, service,
                   built, poolVars>>

\* checkSession settled (handleRoute lines 79-95; checkSession, query.ts
\* lines 411-432, returns false on every error): with an invalid session the
\* modal is shown and handleRoute returns; with a valid one it proceeds.
SessionSettle(t, valid) ==
    /\ t \in tasks /\ t.pc = "session"
    /\ IF valid
       THEN /\ HandleRouteProceed(t, t.comp, tasks \ {t})
            /\ granted' = granted \cup {t.id}
       ELSE /\ tasks' = tasks \ {t}
            /\ UNCHANGED <<isMainViewportLoaded, currentComponent,
                           cleanupCallbacks, attached, trackedHandlers, granted>>
    /\ last' = [NoRouteObs EXCEPT !.op = IF valid THEN "session" ELSE "modal"]
    /\ UNCHANGED <<slot, hash, navs>>
    /\ UNCHANGED <<siVars, flowRest, spinnerInterval, hovering, webAuthn,
                   loadedScripts, loadedStyles, head, loads, location, service,
                   built, poolVars>>

\* The bootstrap has set window.routes and called handleRoute (app.ts lines
\* 196-197), which is suspended at its first await.
InitBoot ==
    /\ SignInIdle
    /\ spinnerInterval = {} /\ hovering = FALSE /\ webAuthn = TRUE
    /\ LoadersIdle /\ UrlIdle /\ PoolIdle
    /\ hash \in { Hash(path, NoUri) : path \in BootPaths }
    /\ view = "login" /\ wired = "loading"
    /\ email = Null /\ password = Null
    /\ boxes = EmptyBoxes /\ banner = HiddenBanner /\ btn = FreshBtns
    /\ pending = {} /\ timer = FALSE /\ loginEmail = Null
    /\ last = NoRouteObs /\ navs = 0
    /\ isMainViewportLoaded = FALSE /\ currentComponent = Null
    /\ cleanupCallbacks = <<>>
    /\ slot = [html |-> "none", gen |-> 0]
    /\ tasks = { IF IsPublic(hash.path)
                 THEN Task(0, "layoutFetch", "none", TRUE)
                 ELSE Task(0, "session", RouteChild(hash), FALSE) }
    /\ trackedHandlers = [c \in Components |-> {}]
    /\ attached = {}

NextBoot ==
    \/ \E path \in BootPaths : BootHashChange(path)
    \/ \E t \in tasks, valid \in BOOLEAN : SessionSettle(t, valid)
    \/ \E t \in tasks : LayoutInject(t)
    \/ \E t \in tasks : LayoutRoute(t)
    \/ \E t \in tasks : ChildInject(t)
    \/ \E t \in tasks : ChildAttach(t)

SpecBoot == InitBoot /\ [][NextBoot]_vars

\* The child of the private route is being loaded or is shown.
PrivateChildLoaded ==
    \/ currentComponent = PrivateChild
    \/ slot.html = PrivateChild
    \/ \E t \in tasks : t.comp = PrivateChild /\ t.pc \in {"fetch", "init"}
    \/ \E l \in attached : l.comp = PrivateChild

\* C22: for a route whose path is not in PUBLIC_ROUTES, no component of the
\* route is loaded unless checkSession returned true for a navigation to it,
\* and with an invalid session the displayed view is unchanged, for every
\* interleaving of hashchange events with the initial layout load.
C22_PrivateRouteNeedsSession ==
    PrivateChildLoaded => granted # {}

\* C29: the main-viewport layout is injected at most once per page lifetime,
\* for every interleaving of hashchange events with the bootstrap route
\* handling (slot.gen counts the injections of the layout HTML).
C29_LayoutLoadedOnce ==
    slot.gen <= 1

-----------------------------------------------------------------------------
(***************************************************************************)
(* The user pool of the SDK: configureAuth (query.ts) and the init of      *)
(* admin-login (SpecPool)                                                   *)
(***************************************************************************)

\* Bound on the navigations between login and admin-login.
MaxPoolNavs == 3

PoolViews == {"login", "admin-login"}

PoolTask(kind, v, gen) == [kind |-> kind, view |-> v, gen |-> gen]

poolRest == <<spinnerInterval, hovering, webAuthn, loadedScripts, loadedStyles,
              head, loads, location, service, built, granted>>

\* admin-login init, lines 129-130: the admin pool when the configuration
\* has one, the regular pool otherwise.
AdminInitPool == IF adminPool THEN "admin" ELSE "regular"

\* The hash changes to the other sign-in view: handleRoute loads the child
\* and calls its init, which suspends at its first await.
PoolNav(v) ==
    /\ poolNavs < MaxPoolNavs
    /\ v \in PoolViews /\ v # poolView
    /\ poolView' = v
    /\ poolReady' = FALSE
    /\ poolNavs' = poolNavs + 1
    /\ poolTasks' = poolTasks \cup {PoolTask("init", v, poolNavs + 1)}
    /\ poolLast' = [op |-> "nav", from |-> v, pool |-> amplify]
    /\ UNCHANGED <<isConfigured, amplify, adminPool>>
    /\ UNCHANGED <<siVars, flowVars, routeVars, poolRest>>

\* init of a sign-in view after its awaits.  admin-login (part_002 lines
\* 118-141, 152 ff.) calls Amplify.configure with AdminInitPool; login's init
\* does not configure.  The handlers are attached to the elements found in
\* the document, those of the view shown now.
PoolInit(t) ==
    /\ t \in poolTasks /\ t.kind = "init"
    /\ amplify' = IF t.view = "admin-login" THEN AdminInitPool ELSE amplify
    /\ poolReady' = IF t.gen = poolNavs THEN TRUE ELSE poolReady
    /\ poolTasks' = poolTasks \ {t}
    /\ poolLast' = [op |-> "init", from |-> t.view, pool |-> amplify']
    /\ UNCHANGED <<poolView, isConfigured, adminPool, poolNavs>>
    /\ UNCHANGED <<siVars, flowVars, routeVars, poolRest>>

\* The login form is submitted: signInUser (query.ts lines 73-82) awaits
\* configureAuth, which returns at once when isConfigured (line 47) and
\* otherwise awaits getConfig (line 49); signIn is called afterwards.
PoolLoginSignIn ==
    /\ poolView = "login" /\ poolReady
    /\ IF isConfigured
       THEN /\ poolLast' = [op |-> "signIn", from |-> "login", pool |-> amplify]
            /\ UNCHANGED poolTasks
       ELSE /\ poolTasks' = poolTasks \cup {PoolTask("configureAuth", "login", poolNavs)}
            /\ poolLast' = [op |-> "configureAuth", from |-> "login", pool |-> amplify]
    /\ UNCHANGED <<poolView, poolReady, isConfigured, amplify, adminPool, poolNavs>>
    /\ UNCHANGED <<siVars, flowVars, routeVars, poolRest>>

\* configureAuth after getConfig (lines 51-70): Amplify.configure with the
\* regular pool, isConfigured = true; signInUser then calls signIn (line 82).
ConfigureAuthResume(t) ==
    /\ t \in poolTasks /\ t.kind = "configureAuth"
    /\ amplify' = "regular"
    /\ isConfigured' = TRUE
    /\ poolTasks' = poolTasks \ {t}
    /\ poolLast' = [op |-> "signIn", from |-> "login", pool |-> "regular"]
    /\ UNCHANGED <<poolView, poolReady, adminPool, poolNavs>>
    /\ UNCHANGED <<siVars, flowVars, routeVars, poolRest>>

\* The admin-login form is submitted (part_002 lines 152-183): signIn is
\* called with the SDK as it is configured; configureAuth is not called.
PoolAdminSignIn ==
    /\ poolView = "admin-login" /\ poolReady
    /\ poolLast' = [op |-> "signIn", from |-> "admin-login", pool |-> amplify]
    /\ UNCHANGED <<poolView, poolReady, isConfigured, amplify, adminPool,
                   poolTasks, poolNavs>>
    /\ UNCHANGED <<siVars, flowVars, routeVars, poolRest>>

InitPool ==
    /\ SignInIdle /\ FlowIdle /\ RouteIdle
    /\ spinnerInterval = {} /\ hovering = FALSE /\ webAuthn = TRUE
    /\ LoadersIdle /\ UrlIdle
    /\ poolView \in PoolViews /\ poolReady = FALSE /\ isConfigured = FALSE
    /\ amplify = "none" /\ adminPool \in BOOLEAN
    /\ poolTasks = {PoolTask("init", poolView, 0)}
    /\ poolLast = NoPoolObs /\ poolNavs = 0
    /\ granted = {}

NextPool ==
    \/ \E v \in PoolViews : PoolNav(v)
    \/ \E t \in poolTasks : PoolInit(t)
    \/ PoolLoginSignIn
    \/ \E t \in poolTasks : ConfigureAuthResume(t)
    \/ PoolAdminSignIn

SpecPool == InitPool /\ [][NextPool]_vars

\* C28: for every sequence of navigations between login and admin-login, a
\* sign-in started from login runs against the regular pool and a sign-in
\* started from admin-login runs against the admin pool when one is
\* configured.
C28_SignInUsesOwnPool ==
    poolLast.op = "signIn"
        => /\ poolLast.from = "login" => poolLast.pool = "regular"
           /\ (poolLast.from = "admin-login" /\ adminPool)
                 => poolLast.pool = "admin"

(***************************************************************************)
(* SpecUpdate: the update-password page on its own.  The page is shown     *)
(* after a login that answered 'UpdatePassword' (email and password set in *)
(* utils/state.ts) or opened at #/update-password directly (both null).    *)
(***************************************************************************)

InitUpdate ==
    /\ SignInIdle /\ RouteIdle /\ AuxIdle
    /\ view = "update-password" /\ wired = "loading"
    /\ hash = Hash("/update-password", NoUri)
    /\ \/ email = Null /\ password = Null
       \/ email \in Emails /\ password \in Passwords
    /\ boxes = EmptyBoxes /\ banner = HiddenBanner /\ btn = FreshBtns
    /\ pending = {} /\ timer = FALSE /\ loginEmail = email
    /\ last = NoObs /\ navs = 0

NextUpdate ==
    \/ ChildInit
    \/ \E f \in UpdateForms : UpdatePasswordSubmit(f)
    \/ UpdatePasswordSettles
    \/ \E path \in Paths : \E q \in Queries(path) : UserNav(path, q)

SpecUpdate == InitUpdate /\ [][NextUpdate]_vars

(***************************************************************************)
(* Properties of the page flow (checked under Spec)                        *)
(***************************************************************************)

FullCodeBanner == [visible |-> TRUE, text |-> MsgFullCode]

\* C2: in mfa and in mfa-setup, a submit whose boxes do not join to exactly
\* six digits shows the banner 'Please enter a full 6-digit code', calls no
\* verify function and redirects nowhere.
C2_InvalidCodeShowsBanner ==
    (last.op = "submit" /\ last.h \in {"mfa", "mfa-setup"}
        /\ ~IsSixDigits(last.code))
    => /\ banner = FullCodeBanner
       /\ last.call = "none"
       /\ last.nav = "none"
       /\ view = last.h

\* C3: when the verify function of mfa or mfa-setup returns a status other
\* than 'Success', the handler redirects nowhere, raises an error
\* notification and leaves its button enabled with the spinner hidden; the
\* redirect to the auth endpoint is made only on 'Success'.
C3_RejectedCodeRestores ==
    (last.op = "settle" /\ last.h \in {"mfa", "mfa-setup"})
    => /\ last.status # "Success"
          => /\ last.nav = "none"
             /\ view # "left"
             /\ last.notify = "error"
             /\ ~last.btnDisabled /\ last.spinnerHidden
             /\ last.live => btn[last.h] = FreshBtn
       /\ last.nav = "auth" => last.status = "Success"
       /\ view = "left" => last.status = "Success"

\* C3 witness: a code submitted in the shown mfa-setup form was rejected.
C3_Witness ==
    /\ last.op = "settle" /\ last.h = "mfa-setup" /\ last.status = "Failed"
    /\ last.live /\ view = "mfa-setup"

\* The next step the login page is to take, by status and set-up URL.
C4_Expected(status, url) ==
    CASE status = "MFASetup" /\ url \in {"", Undefined}
           -> Step("/post-password-change", NoUri)
      [] status = "MFASetup" /\ url \notin {"", Undefined}
           -> Step("/mfa-setup", <<"enc", url>>)
      [] status = "MFA" -> Step("/mfa", NoUri)
      [] status = "UpdatePassword" -> Step("/update-password", NoUri)
      [] status = "ResetPasswordConfirm" -> Step("/reset-password-confirm", NoUri)
      [] status = "Success" -> Step("auth", NoUri)
      [] OTHER -> Step("none", NoUri)

\* C4: the login submit handler maps each signInUser status to one next
\* step: MFASetup without a set-up URL to /#/post-password-change, MFASetup
\* with a URL to /#/mfa-setup?uri=<URL>, MFA to #/mfa, UpdatePassword to
\* #/update-password, ResetPasswordConfirm to #/reset-password-confirm,
\* Success to the auth endpoint, PasskeyRequired and any other status nowhere.
C4_LoginNextStep ==
    (last.op = "settle" /\ last.h = "login" /\ last.status # "<threw>")
    => LET e == C4_Expected(last.status, last.url) IN
       /\ last.nav = e.nav /\ last.uri = e.uri
       /\ (e.nav = "auth") <=> (view = "left")
       /\ e.nav \notin {"none", "auth"}
          => /\ hash = Hash(e.nav, e.uri)
             /\ view = RouteTable[e.nav]
             /\ GetHashQueryParam(hash.uri) =
                    (IF e.nav = "/mfa-setup" THEN last.url ELSE Null)

\* C4 witness: signInUser answered MFASetup with a set-up URL and the hash
\* carries it.
C4_Witness ==
    /\ last.op = "settle" /\ last.h = "login" /\ last.status = "MFASetup"
    /\ last.url = SetupUri
    /\ view = "mfa-setup" /\ hash.uri = EncodeURIComponent(SetupUri)

\* C7: whenever a flow ends (the redirect to the auth endpoint after login,
\* MFA verification, MFA set-up, passkey creation or password-only
\* confirmation, or the return to the login route after a confirmed password
\* reset) the pending email is null.
C7_EmailNullWhenFlowEnds ==
    /\ view = "left" => email = Null
    /\ (last.op = "settle" /\ last.h = "reset-password-confirm"
          /\ last.status = "Success")
       => email = Null

\* C8: the pending password is set only by the login submit handler on
\* status 'UpdatePassword', is null after every update-password submission
\* that reached updatePassword, and is null at every redirect to the auth
\* endpoint.
C8_PasswordLifetime ==
    [][ /\ (password' # password /\ password' # Null)
           => /\ last'.op = "settle" /\ last'.h = "login"
              /\ last'.status = "UpdatePassword"
        /\ (last'.op = "settle" /\ last'.h = "update-password")
           => password' = Null
        /\ view' = "left" => password' = Null ]_vars

\* C9: when update-password is reached through login status
\* 'UpdatePassword', or post-password-change through login status 'MFASetup'
\* or through a successful password update, the pending email is non-null and
\* is the email submitted at login; and with the pending email null or empty
\* the update-password submit calls no updatePassword and the MFA set-up
\* button calls no setupMFA and shows 'Session error. Please log in again.'.
C9_PendingEmailBridges ==
    /\ (last.op = "settle" /\ last.h = "login"
          /\ last.nav \in {"/update-password", "/post-password-change"})
       => email # Null /\ email = loginEmail
    /\ (last.op = "settle" /\ last.h = "update-password"
          /\ last.nav = "/post-password-change")
       => email # Null /\ email = loginEmail
    /\ (last.op = "submit" /\ last.h = "update-password"
          /\ email \in {Null, ""})
       => last.call = "none"
    /\ (last.op = "click" /\ last.h = "ppc-mfa" /\ email \in {Null, ""})
       => /\ last.call = "none"
          /\ banner = [visible |-> TRUE, text |-> MsgSession]

\* C14: every login submission that ends in a failure (signInUser returns
\* 'Failed' or 'PasskeyRequired', or throws) raises a notification.
C14_LoginFailureNotified ==
    (last.op = "settle" /\ last.h = "login"
        /\ last.status \in {"Failed", "PasskeyRequired", "<threw>"})
    => last.notify # "none"

-----------------------------------------------------------------------------
\* C25: after an update-password submission in which the provider accepts
\* the new password (updatePassword's statuses 'Success', 'MFASetup' and
\* 'MFA') the user is moved on to a next step and no error is shown; only
\* status 'Failed' leads to an error notification.
C25_AcceptedPasswordMovesOn ==
    (last.op = "settle" /\ last.h = "update-password")
        => /\ last.status \in {"Success", "MFASetup", "MFA"}
                => (last.nav # "none" /\ last.notify = "none")
           /\ last.notify = "error" => last.status = "Failed"

\* The values of an update-password form pass the checks the claim names:
\* the three fields non-blank, the new password of at least 12 characters
\* with an uppercase letter, a digit and a special character, and the
\* confirmation equal to it.
FormAcceptable(f) ==
    LET v == ExtractFormValues(f) IN
    /\ v.currentPassword # <<>> /\ v.newPassword # <<>> /\ v.confirmPassword # <<>>
    /\ Len(v.newPassword) >= 12
    /\ \E i \in 1..Len(v.newPassword) : v.newPassword[i] \in UpperChars
    /\ \E i \in 1..Len(v.newPassword) : v.newPassword[i] \in DigitChars
    /\ \E i \in 1..Len(v.newPassword) : v.newPassword[i] \in SpecialChars
    /\ v.confirmPassword = v.newPassword

\* C26: the update-password submit handler calls updatePassword only when
\* the form is acceptable; in every other case it shows a field error and
\* makes no provider call.  Checked under SpecUpdate.
C26_UpdatePasswordValidated ==
    [][ \A f \in UpdateForms :
          UpdatePasswordSubmit(f)
              => /\ last'.call = "updatePassword" => FormAcceptable(f)
                 /\ ~FormAcceptable(f)
                       => /\ last'.notify = "fieldError"
                          /\ last'.call = "none" /\ pending' = pending ]_vars

\* C26 witness: updatePassword was called for a submitted form.
C26_Witness ==
    /\ last.op = "submit" /\ last.h = "update-password"
    /\ last.call = "updatePassword"
    /\ \E p \in pending : p.h = "update-password"

\* C24: when the hash changes to a route whose child component is the one
\* already displayed (the same path with another query string, or another
\* path mapped to the same component), the reload is skipped and the
\* displayed component keeps its event handlers attached.
C24_SameChildKeepsHandlers ==
    [][ (/\ hash' # hash /\ view # "left" /\ wired = "attached"
         /\ RouteTable[hash'.path] = view)
            => (view' = view /\ wired' = "attached") ]_vars

(***************************************************************************)
(* Properties of signInUser (checked under SpecSignIn)                     *)
(***************************************************************************)

\* C5: signInUser names the provider's output: for a user not signed in,
\* step CONTINUE_SIGN_IN_WITH_TOTP_SETUP gives 'MFASetup',
\* CONFIRM_SIGN_IN_WITH_TOTP_CODE gives 'MFA', RESET_PASSWORD gives
\* 'ResetPasswordConfirm', CONFIRM_SIGN_IN_WITH_NEW_PASSWORD_REQUIRED gives
\* 'UpdatePassword'; and every status returned is one of the seven names.
C5_SignInStatusNames ==
    (out # NotCalled /\ ~out.threw)
    => /\ out.status \in SignInStatuses
       /\ ~scn.isSignedIn
          => /\ scn.step = "CONTINUE_SIGN_IN_WITH_TOTP_SETUP"
                => out.status = "MFASetup"
             /\ scn.step = "CONFIRM_SIGN_IN_WITH_TOTP_CODE"
                => out.status = "MFA"
             /\ scn.step = "RESET_PASSWORD"
                => out.status = "ResetPasswordConfirm"
             /\ scn.step = "CONFIRM_SIGN_IN_WITH_NEW_PASSWORD_REQUIRED"
                => out.status = "UpdatePassword"

\* C5 witness: the provider asked for a password reset after the sign-out
\* and retry, and signInUser returned.
C5_Witness ==
    /\ out # NotCalled /\ ~out.threw
    /\ scn.first = "alreadySignedIn" /\ scn.step = "RESET_PASSWORD"
    /\ out.status = "ResetPasswordConfirm" /\ out.signInCalls = 2

\* C11: every redirect to the auth endpoint is preceded, in the same sign-in
\* flow, by storing the access token in session storage and writing the JWT
\* cookie: when the login handler redirects on what signInUser returned,
\* signInUser has stored the token.
C11_TokenStoredBeforeRedirect ==
    (out # NotCalled /\ ~out.threw /\ LoginNextStep(out).nav = "auth")
    => out.tokenStored

\* C12 as stated: there is no retry, one login submission results in at most
\* one signIn call to the provider.
C12_NoRetry == out # NotCalled => out.signInCalls <= 1

\* C12 amended: one login submission results in at most two signIn calls; the
\* call is issued a second time, after a sign-out, exactly when the first
\* failed because a user is already signed in and the sign-out went through;
\* after any other failure, and after a failed second call, signInUser throws
\* without calling the provider again.
C12_OneRetryAfterSignOut ==
    out # NotCalled
    => /\ out.signInCalls \in {1, 2}
       /\ out.signInCalls = 2
          <=> (scn.first = "alreadySignedIn" /\ scn.signOut = "ok")
       /\ scn.first = "error" => (out.threw /\ out.signInCalls = 1)
       /\ (scn.first = "alreadySignedIn" /\ scn.signOut = "ok"
             /\ scn.retry = "error")
          => out.threw

\* C12 witness: the first call found a user signed in, the call made after
\* the sign-out failed, and no third call was made.
C12_Witness ==
    /\ out # NotCalled /\ out.threw /\ out.signInCalls = 2
    /\ scn.first = "alreadySignedIn" /\ scn.retry = "error"

\* C18: a password sign-in by a user with at least one registered passkey
\* never returns 'Success'; once the password was accepted signInUser signs
\* the user out and returns 'PasskeyRequired'.
C18_PasskeyUserRefused ==
    (out # NotCalled /\ ~out.threw /\ scn.passkeys = "some")
    => /\ out.status # "Success"
       /\ scn.isSignedIn => (out.status = "PasskeyRequired" /\ out.signedOut)

\* C21: for a directly signed-in user who has neither TOTP MFA nor a
\* passkey, signInUser returns 'Success' only if the backend reports
\* authMethod 'password-only'; otherwise it returns 'MFASetup' with an empty
\* set-up URL, or 'Failed' after signing out.
C21_NoSecondFactorNeedsPasswordOnly ==
    (/\ out # NotCalled /\ ~out.threw
     /\ scn.isSignedIn /\ ~scn.hasPasskeys /\ ~scn.hasTotp)
        => /\ out.status = "Success"
                => (/\ scn.session = "tokens" /\ scn.payload = "sub"
                    /\ scn.api = "ok" /\ scn.authMethod = "password-only")
           /\ out.status # "Success"
                => \/ out.status = "MFASetup" /\ out.mfaSetupUrl = ""
                   \/ out.status = "Failed" /\ out.signedOut

\* C20: signInUser returns 'Success' only when the provider reported the user
\* as signed in.
C20_SuccessOnlyWhenSignedIn ==
    (out # NotCalled /\ ~out.threw /\ out.status = "Success")
    => scn.isSignedIn

-----------------------------------------------------------------------------
(***************************************************************************)
(* Properties of the router and the component lifecycle (SpecRoute)        *)
(***************************************************************************)

\* C1: every submit event of the MFA code form with six digits entered calls
\* the verify function exactly once, whatever route changes, init and destroy
\* calls came before.
C1_VerifyCalledOnce ==
    (last.op = "submit" /\ last.quiet) => last.calls = 1

\* C6: once route handling has completed for a hash whose path is a key of
\* the route table, the main slot shows the child the table maps the path
\* to, on the first load and on later hash changes, with or without a query.
C6_SlotShowsRouteChild ==
    (tasks = {} /\ isMainViewportLoaded) => slot.html = RouteTable[hash.path]

LiveComponents == { l.comp : l \in { a \in attached : a.gen = slot.gen } }

\* C23: for every interleaving of hashchange events, the init and destroy
\* calls of each child alternate starting with init (no component has two
\* destroys registered at once), at most one child component has live
\* handlers at any time, and once route handling is quiescent the component
\* with live handlers is the one whose HTML is in the main slot.
C23_OneLiveComponent ==
    /\ \A i, j \in DOMAIN cleanupCallbacks :
           cleanupCallbacks[i] = cleanupCallbacks[j] => i = j
    /\ Cardinality(LiveComponents) <= 1
    /\ tasks = {} => LiveComponents \subseteq {slot.html}

(***************************************************************************)
(* Properties of the sign-in pages (SpecLogin)                             *)
(***************************************************************************)

\* C13: in login, admin-login and register, every form submission that
\* started a provider call and ends without a redirect (the call failed,
\* threw, or returned a status that is not a success) leaves the submit
\* button enabled again with its spinner hidden.
C13_FailureRestoresButton ==
    (/\ last.op = "settle"
     /\ last.h \in {"login", "admin-login", "register"}
     /\ last.nav = "none" /\ last.status # "Success")
        => (~last.btnDisabled /\ last.spinnerHidden)

\* C15: a WebAuthn dialog cancelled by the user (provider error named
\* NotAllowedError) during passkey sign-in in login or admin-login is
\* ignored: no redirect happens, no error notification is raised, the passkey
\* button ends enabled with its spinner hidden, and no interval is left to
\* disable it again.
C15_CancelledPasskeyIgnored ==
    (/\ last.op = "settle"
     /\ last.h \in {"login-passkey", "admin-passkey"}
     /\ last.error = "NotAllowedError")
        => /\ last.nav = "none" /\ view # "left"
           /\ last.notify # "error"
           /\ ~last.btnDisabled /\ last.spinnerHidden
           /\ btn[last.h] = FreshBtn
           /\ last.h \notin spinnerInterval

\* C15 witness: signInWithPasskey returned 'Cancelled' to the login page and
\* the passkey button is enabled again.
C15_Witness ==
    /\ last.op = "settle" /\ last.h = "login-passkey"
    /\ last.error = "NotAllowedError" /\ last.status = "Cancelled"
    /\ view = "login" /\ btn["login-passkey"] = FreshBtn

\* C16: while a sign-in request started from the login form is in flight, no
\* second sign-in request is started from that form, whatever the user does
\* in between, mouseenter and mouseleave on the passkey section included.
C16_NoOverlappingSignIn ==
    (last.op = "submit" /\ last.h = "login" /\ last.call = "signInUser")
        => ~last.overlap

\* C27: the forgot-password submit handler announces 'Reset code sent' and
\* navigates to #/reset-password-confirm only when sending the reset code
\* succeeded; when sendResetCode fails it shows an error notification and
\* stays on the forgot-password view.
C27_ResetCodeAnnouncedOnlyWhenSent ==
    (last.op = "settle" /\ last.h = "forgot-password")
        => /\ (last.notify = "success" \/ last.nav # "none")
                => last.status = "Success"
           /\ last.status # "Success"
                => (last.notify = "error" /\ last.nav = "none")

\* C30: in the passkey click handlers of login and admin-login the interval
\* that keeps the button disabled is cleared on every exit path: once a
\* handler has finished without a redirect its interval no longer runs, so
\* no tick disables the passkey button again before the next click.
C30_IntervalClearedOnExit ==
    \A b \in {"login-passkey", "admin-passkey"} :
        (view # "left" /\ ~(\E p \in pending : p.h = b))
            => /\ b \notin spinnerInterval
               /\ ~(last.op = "tick" /\ last.h = b)

====
